---- MODULE Spec2Model ----
(***************************************************************************)
(* Boolean function minimization engine of ALGO/combinational_circuits:    *)
(* the cube algebra (espresso_algorithm.Cube), the Quine-McCluskey engine  *)
(* (quine_mccluskey.Term, QuineMcCluskey), the Espresso-style engine       *)
(* (espresso_algorithm.Cover, EspressoAlgorithm), the Karnaugh map         *)
(* grouping (karnaugh_map.KarnaughMap) and the single-multiplexer design   *)
(* (multiplexer_design.MultiplexerDesign).                                 *)
(*                                                                         *)
(* A cube / binary_rep is a sequence over {"0","1","-"}, position 1 being  *)
(* the most significant bit, as format(m, '0nb') writes it.  A Python list *)
(* or dict is a sequence in insertion order.  A Python set of integers is  *)
(* a TLA+ set; the order in which a for-loop enumerates it is the hash     *)
(* order, which the language leaves open: the model draws it (hash_seed)   *)
(* from a bounded family of orders when the set is built.                  *)
(***************************************************************************)
EXTENDS Integers, Sequences, FiniteSets, TLC

\* ---------------------------------------------------------------- bounds
MaxVars == 3        \* num_variables ranges over 1..MaxVars
MaxMinterm == 6     \* minterm and don't-care values are drawn from 0..MaxMinterm
MaxSeed == 1        \* enumeration orders of a set: hash_seed in 0..MaxSeed
MaxIter == 2        \* max_iterations ranges over 0..MaxIter
MaxCallValue == 1   \* in-range values of a call with unvalidated arguments: 0..MaxCallValue
MaxSolverValue == 2 \* functions handed to the coverage solver directly: values 0..MaxSolverValue
MaxCoverLen == 2    \* covers handed to a phase directly hold 1..MaxCoverLen cubes
MaxCalls == 2       \* a minimize call is repeated up to MaxCalls times

VARIABLES
    num_variables,          \* QuineMcCluskey.num_variables / EspressoAlgorithm.num_variables
    minterms,               \* QuineMcCluskey.minterms (set)
    dont_cares,             \* QuineMcCluskey.dont_cares (set)
    hash_seed,              \* enumeration order of the engine's integer sets
    pc,                     \* position of the QuineMcCluskey caller / minimize()
    current_terms,          \* _find_prime_implicants: current_terms (list of Term)
    generation,             \* _find_prime_implicants: passes of "while current_terms" made
    prime_implicants,       \* _find_prime_implicants: prime_implicants (list of Term)
    coverage,               \* minimize: coverage (dict Term -> set, insertion order)
    essential_pis,          \* minimize: essential_pis (list of Term)
    covered_by_essential,   \* minimize: covered_by_essential (set)
    relevant_coverage,      \* _solve_covering_problem: relevant_coverage (dict)
    remaining_minterms,     \* _solve_covering_problem: remaining_minterms (set)
    selected_pis,           \* _solve_covering_problem: selected_pis (list of Term)
    best_pi,                \* _solve_covering_problem: best_pi (<<>> is None)
    result,                 \* the dictionary minimize() returned (<<>> before)
    on_set,                 \* EspressoAlgorithm.on_set.cubes
    dc_set,                 \* EspressoAlgorithm.dc_set.cubes
    off_set,                \* EspressoAlgorithm.off_set.cubes
    e_pc,                   \* position of the EspressoAlgorithm caller / minimize()
    max_iterations,         \* minimize: max_iterations
    iteration,              \* minimize: iteration
    current_cover,          \* minimize: current_cover.cubes
    old_cost,               \* minimize: old_cost
    expanded_cover,         \* minimize: expanded_cover.cubes
    irredundant_cover,      \* minimize: irredundant_cover.cubes
    reduced_cover,          \* minimize: reduced_cover.cubes
    e_result,               \* the dictionary EspressoAlgorithm.minimize returned
    cube_a,                 \* cube algebra: the receiver (self)
    cube_b,                 \* cube algebra: the argument (other)
    cube_out,               \* cube algebra: what the operations returned
    km_minterms,            \* KarnaughMap.minterms (set)
    km_maxterms,            \* KarnaughMap.maxterms (set)
    km_hash_seed,           \* enumeration order of the K-map's integer sets
    km_pc,                  \* position of the KarnaughMap caller / minimize_expression()
    km_prime_implicants,    \* minimize_expression: prime_implicants (list of sets)
    km_essential_pis,       \* minimize_expression: essential_pis (list of sets)
    km_covered_minterms,    \* minimize_expression: covered_minterms (set)
    km_final_pis,           \* minimize_expression: final_pis (list of sets)
    km_result,              \* the dictionary minimize_expression returned
    function_truth_table,   \* MultiplexerDesign.function_truth_table (dict int -> 0/1)
    mux_minterms,           \* MultiplexerDesign.minterms (set)
    mux_pc,                 \* position of the MultiplexerDesign caller
    select_variables,       \* design_single_mux: select_variables (0-based indices)
    data_inputs,            \* design_single_mux: data_inputs (dict select_combo -> input)
    qm_calls,               \* qm.minimize() calls repeated since set_function
    e_calls                 \* espresso.minimize(k) calls repeated since set_function

qmVars == <<minterms, dont_cares, hash_seed, pc, current_terms, generation, prime_implicants,
            coverage, essential_pis, covered_by_essential, relevant_coverage,
            remaining_minterms, selected_pis, best_pi, result>>
espVars == <<on_set, dc_set, off_set, e_pc, max_iterations, iteration, current_cover,
             old_cost, expanded_cover, irredundant_cover, reduced_cover, e_result>>
cubeVars == <<cube_a, cube_b, cube_out>>
kmVars == <<km_minterms, km_maxterms, km_hash_seed, km_pc, km_prime_implicants,
            km_essential_pis, km_covered_minterms, km_final_pis, km_result>>
muxVars == <<function_truth_table, mux_minterms, mux_pc, select_variables, data_inputs>>
callVars == <<qm_calls, e_calls>>
vars == <<num_variables, qmVars, espVars, cubeVars, kmVars, muxVars, callVars>>

\* ------------------------------------------------------- generic helpers
None == <<>>

Min(S) == CHOOSE x \in S : \A y \in S : x <= y

RECURSIVE SortedSeq(_)
\* the integers of S in ascending order
SortedSeq(S) == IF S = {} THEN <<>>
                ELSE LET m == Min(S) IN <<m>> \o SortedSeq(S \ {m})

Range(s) == {s[i] : i \in 1..Len(s)}

RECURSIVE SumSeq(_)
SumSeq(s) == IF s = <<>> THEN 0 ELSE Head(s) + SumSeq(Tail(s))

\* the minterm set a literal string denotes: the integers of [0, 2^n) that
\* agree with every defined literal (position 1 is the most significant bit)
BitAt(m, n, i) == IF (m \div (2 ^ (n - i))) % 2 = 1 THEN "1" ELSE "0"
Matches(m, rep) == \A i \in 1..Len(rep) : rep[i] = "-" \/ rep[i] = BitAt(m, Len(rep), i)
Cubes(n) == [1..n -> {"0", "1", "-"}]
\* the minterm set of every cube of up to MaxVars literals, tabulated once
MintermTable ==
    [rep \in UNION {Cubes(n) : n \in 1..MaxVars} |->
        {m \in 0..(2 ^ Len(rep) - 1) : Matches(m, rep)}]
ToMinterms(rep) == MintermTable[rep]
Relax(rep, i) == [rep EXCEPT ![i] = "-"]
LiteralCount(rep) == Cardinality({i \in 1..Len(rep) : rep[i] # "-"})

\* for s in <set>: the order a for-loop enumerates the integer set S in. The
\* elements are visited by hash slot; seed 0 is the ascending order CPython
\* shows for small integers, seed k the order of the slots (m * (2k+1)) mod 2^n;
\* values outside [0, 2^n) that share a slot follow each other
SetOrder(S, n, seed) ==
    LET size == 2 ^ n
        span == 2 * (2 * MaxSeed + 1) + 1
        key(m) == ((m * (2 * seed + 1)) % size) * span
                      + ((m * (2 * seed + 1)) \div size) + (2 * MaxSeed + 1)
        keys == SortedSeq({key(m) : m \in S})
    IN  [i \in 1..Len(keys) |-> CHOOSE m \in S : key(m) = keys[i]]

\* ------------------------------------------------- espresso_algorithm.Cube
\* zip(self.representation, other.representation): the common positions
ZipLen(a, b) == IF Len(a) <= Len(b) THEN Len(a) ELSE Len(b)

\* Cube.intersect: None when the lengths differ or two defined literals conflict
intersect(self, other) ==
    IF Len(self) # Len(other) THEN None
    ELSE IF \E i \in 1..Len(self) :
                self[i] # "-" /\ other[i] # "-" /\ self[i] # other[i]
         THEN None
         ELSE [i \in 1..Len(self) |->
                  IF self[i] = "-" THEN other[i]
                  ELSE IF other[i] = "-" THEN self[i]
                  ELSE self[i]]

\* Cube.contains: False at the first position where both literals are defined
\* and differ, or where self is '-' and other is defined; True otherwise
contains(self, other) ==
    \A i \in 1..ZipLen(self, other) :
        /\ ~(self[i] # "-" /\ other[i] # "-" /\ self[i] # other[i])
        /\ ~(self[i] = "-" /\ other[i] # "-")

\* Cube.distance: the positions where both literals are defined and differ
distance(self, other) ==
    Cardinality({i \in 1..ZipLen(self, other) :
                    self[i] # "-" /\ other[i] # "-" /\ self[i] # other[i]})

\* Cube.can_merge
can_merge(self, other) == distance(self, other) = 1

\* Cube.merge: None unless can_merge; otherwise position by position
merge(self, other) ==
    IF ~can_merge(self, other) THEN None
    ELSE [i \in 1..ZipLen(self, other) |->
             IF self[i] = other[i] THEN self[i]
             ELSE IF self[i] # "-" /\ other[i] # "-" THEN "-"
             ELSE IF self[i] = "-" THEN other[i]
             ELSE self[i]]

\* Cube.literal_count
literal_count(self) == Cardinality({i \in 1..Len(self) : self[i] # "-"})

\* variables = [f'A{i}' for i in range(num_variables)]
VariableName(i) == "A" \o ToString(i - 1)

RECURSIVE JoinLiterals(_, _)
\* ''.join(literals) over the positions i..Len(rep) of a literal string
JoinLiterals(rep, i) ==
    IF i > Len(rep) THEN ""
    ELSE (IF rep[i] = "1" THEN VariableName(i)
          ELSE IF rep[i] = "0" THEN VariableName(i) \o "'"
          ELSE "") \o JoinLiterals(rep, i + 1)

\* Cube.to_expression / Term.to_expression with the default variable names
to_expression(rep) ==
    LET joined == JoinLiterals(rep, 1) IN IF joined = "" THEN "1" ELSE joined

RECURSIVE JoinTermsReversed(_)
\* ' + '.join(reversed(terms))
JoinTermsReversed(terms) ==
    IF terms = <<>> THEN ""
    ELSE IF Len(terms) = 1 THEN terms[1]
    ELSE JoinTermsReversed(Tail(terms)) \o " + " \o terms[1]

RECURSIVE JoinTerms(_)
\* ' + '.join(terms)
JoinTerms(terms) ==
    IF terms = <<>> THEN ""
    ELSE IF Len(terms) = 1 THEN terms[1]
    ELSE terms[1] \o " + " \o JoinTerms(Tail(terms))

\* ------------------------------------------------- quine_mccluskey.Term
\* Term.__init__
Term(term_minterms, binary_rep) ==
    [minterms |-> term_minterms, binary_rep |-> binary_rep, used |-> FALSE]

\* Term.__eq__: equality of the literal strings
TermEq(t1, t2) == t1.binary_rep = t2.binary_rep

\* term in list, by Term.__eq__
TermIn(t, terms) == \E k \in 1..Len(terms) : TermEq(terms[k], t)

\* can_combine_with without the '-' test of lines 42-43: a '-' against a
\* defined literal is not counted as a difference
can_combine_with_skipping_dashes(self, other) ==
    LET b1 == self.binary_rep
        b2 == other.binary_rep
    IN  /\ Len(b1) = Len(b2)
        /\ Cardinality({i \in 1..Len(b1) :
                           b1[i] # b2[i] /\ b1[i] # "-" /\ b2[i] # "-"}) = 1

\* Term.can_combine_with: same length, no position where exactly one side is
\* '-', and exactly one differing position
can_combine_with(self, other) ==
    LET b1 == self.binary_rep
        b2 == other.binary_rep
    IN  /\ Len(b1) = Len(b2)
        /\ \A i \in 1..Len(b1) : b1[i] # b2[i] => (b1[i] # "-" /\ b2[i] # "-")
        /\ Cardinality({i \in 1..Len(b1) : b1[i] # b2[i]}) = 1

\* combine_with tagging the combined term with the minterms of self only
combine_with_keeping_own_minterms(self, other) ==
    LET b1 == self.binary_rep
        b2 == other.binary_rep
    IN  Term(self.minterms,
             [i \in 1..Len(b1) |-> IF b1[i] = b2[i] THEN b1[i] ELSE "-"])

\* Term.combine_with (called only when can_combine_with holds)
combine_with(self, other) ==
    LET b1 == self.binary_rep
        b2 == other.binary_rep
    IN  Term(self.minterms \cup other.minterms,
             [i \in 1..Len(b1) |-> IF b1[i] = b2[i] THEN b1[i] ELSE "-"])

\* ------------------------------------------- quine_mccluskey.QuineMcCluskey
RECURSIVE BinaryDigits(_)
\* the binary digits of a natural number, most significant first, no padding
BinaryDigits(v) ==
    IF v < 2 THEN <<IF v = 1 THEN "1" ELSE "0">>
    ELSE Append(BinaryDigits(v \div 2), IF v % 2 = 1 THEN "1" ELSE "0")

\* QuineMcCluskey._decimal_to_binary: format(decimal, '0{n}b'). The digits are
\* padded with zeros to the width n, a minus sign counting for the width; a
\* value that needs more than n characters is written in full
decimal_to_binary(decimal, n) ==
    LET sign == IF decimal < 0 THEN <<"-">> ELSE <<>>
        digits == BinaryDigits(IF decimal < 0 THEN -decimal ELSE decimal)
        missing == n - Len(sign) - Len(digits)
    IN  sign \o [i \in 1..(IF missing > 0 THEN missing ELSE 0) |-> "0"] \o digits

\* QuineMcCluskey._count_ones
count_ones(binary_str) == Cardinality({i \in 1..Len(binary_str) : binary_str[i] = "1"})

\* QuineMcCluskey.set_function: the fields are assigned first, then every value
\* is validated; raised tells whether ValueError was raised
set_function(n, minterm_list, dont_care_list) ==
    LET max_value == 2 ^ n - 1
    IN  [minterms |-> minterm_list,
         dont_cares |-> dont_care_list,
         raised |-> \E m \in minterm_list \cup dont_care_list : m < 0 \/ m > max_value]

\* _find_prime_implicants, step 1: one Term per element of minterms | dont_cares,
\* in the set's enumeration order
initial_terms(n, on, dc, seed) ==
    LET all_terms == SetOrder(on \cup dc, n, seed)
    IN  [k \in 1..Len(all_terms) |-> Term({all_terms[k]}, decimal_to_binary(all_terms[k], n))]

\* the (term1, term2) pairs the nested loops of step 2 reach with
\* can_combine_with true, in loop order: ones_count ascending, then term1 and
\* term2 in their order in current_terms (the order _group_by_ones keeps)
combinable_pairs(terms) ==
    LET L == Len(terms)
        B == L + 1
        ones(i) == count_ones(terms[i].binary_rep)
        cand == {p \in (1..L) \X (1..L) :
                    /\ ones(p[2]) = ones(p[1]) + 1
                    /\ can_combine_with(terms[p[1]], terms[p[2]])}
        ranks == SortedSeq({ones(p[1]) * B * B + p[1] * B + p[2] : p \in cand})
    IN  [k \in 1..Len(ranks) |-> <<(ranks[k] \div B) % B, ranks[k] % B>>]

RECURSIVE combine_loop_appending_always(_, _, _)
\* next_terms without the test "combined_term not in next_terms"
combine_loop_appending_always(terms, pairs, next_terms) ==
    IF pairs = <<>> THEN next_terms
    ELSE combine_loop_appending_always(terms, Tail(pairs),
            Append(next_terms, combine_with(terms[pairs[1][1]], terms[pairs[1][2]])))

RECURSIVE combine_loop(_, _, _)
\* next_terms after the pairs: each combined term is appended unless a term
\* with the same literal string is already there
combine_loop(terms, pairs, next_terms) ==
    IF pairs = <<>> THEN next_terms
    ELSE LET combined_term == combine_with(terms[pairs[1][1]], terms[pairs[1][2]])
         IN  combine_loop(terms, Tail(pairs),
                          IF TermIn(combined_term, next_terms) THEN next_terms
                          ELSE Append(next_terms, combined_term))

\* the marking with "term2.used = True" left out
used_positions_term1_only(pairs) == {pairs[k][1] : k \in 1..Len(pairs)}

\* term1.used = True; term2.used = True: the positions marked in this generation
used_positions(pairs) ==
    {pairs[k][1] : k \in 1..Len(pairs)} \cup {pairs[k][2] : k \in 1..Len(pairs)}

\* the terms of the generation that were not used, in list order
unused_terms(terms, used) ==
    LET idx == SortedSeq({i \in 1..Len(terms) : i \notin used})
    IN  [k \in 1..Len(idx) |-> terms[idx[k]]]

\* one iteration of the while loop of _find_prime_implicants
generation_step(terms) ==
    LET pairs == combinable_pairs(terms)
    IN  [next_terms |-> combine_loop(terms, pairs, <<>>),
         primes |-> unused_terms(terms, used_positions(pairs))]

RECURSIVE generation_loop(_, _)
\* the while loop of _find_prime_implicants
generation_loop(terms, primes) ==
    IF terms = <<>> THEN primes
    ELSE LET g == generation_step(terms)
         IN  generation_loop(g.next_terms, primes \o g.primes)

\* QuineMcCluskey._find_prime_implicants
find_prime_implicants(n, on, dc, seed) ==
    generation_loop(initial_terms(n, on, dc, seed), <<>>)

\* QuineMcCluskey._create_coverage_table: the dict as a list of entries in
\* insertion order; only implicants that cover an On minterm are entered
create_coverage_table(pis, on) ==
    LET idx == SortedSeq({i \in 1..Len(pis) : pis[i].minterms \cap on # {}})
    IN  [k \in 1..Len(idx) |-> [pi |-> pis[idx[k]], covered |-> pis[idx[k]].minterms \cap on]]

\* [pi for pi, covered in coverage.items() if minterm in covered]
covering_pis(cov, minterm) ==
    LET idx == SortedSeq({i \in 1..Len(cov) : minterm \in cov[i].covered})
    IN  [k \in 1..Len(idx) |-> cov[idx[k]]]

RECURSIVE essential_loop(_, _, _)
\* the for loop of _find_essential_prime_implicants over the minterms in
\* enumeration order; acc holds essential_pis and covered_minterms
essential_loop(cov, order, acc) ==
    IF order = <<>> THEN acc
    ELSE LET covering == covering_pis(cov, Head(order))
         IN  IF Len(covering) = 1 /\ ~TermIn(covering[1].pi, acc.essential_pis)
             THEN essential_loop(cov, Tail(order),
                     [essential_pis |-> Append(acc.essential_pis, covering[1].pi),
                      covered_minterms |-> acc.covered_minterms \cup covering[1].covered])
             ELSE essential_loop(cov, Tail(order), acc)

\* _find_essential_prime_implicants with every examined minterm that has a
\* covering implicant recorded as covered, essential or not
find_essential_marking_all(cov, n, on, seed) ==
    LET e == essential_loop(cov, SetOrder(on, n, seed),
                            [essential_pis |-> <<>>, covered_minterms |-> {}])
    IN  [essential_pis |-> e.essential_pis,
         covered_minterms |-> e.covered_minterms
                                \cup {m \in on : covering_pis(cov, m) # <<>>}]

\* _find_essential_prime_implicants taking every implicant of the table as
\* essential
find_essential_taking_every_pi(cov, n, on, seed) ==
    [essential_pis |-> [k \in 1..Len(cov) |-> cov[k].pi],
     covered_minterms |-> UNION {cov[k].covered : k \in 1..Len(cov)}]

\* _find_essential_prime_implicants recording as covered only the minterms
\* that have exactly one covering implicant
find_essential_covering_unique_only(cov, n, on, seed) ==
    LET e == essential_loop(cov, SetOrder(on, n, seed),
                            [essential_pis |-> <<>>, covered_minterms |-> {}])
    IN  [essential_pis |-> e.essential_pis,
         covered_minterms |-> {m \in on : Len(covering_pis(cov, m)) = 1}]

\* QuineMcCluskey._find_essential_prime_implicants
find_essential_prime_implicants(cov, n, on, seed) ==
    essential_loop(cov, SetOrder(on, n, seed),
                   [essential_pis |-> <<>>, covered_minterms |-> {}])

\* _solve_covering_problem: relevant_coverage, the entries that cover an
\* uncovered minterm, each restricted to the uncovered minterms
filter_coverage(cov, uncovered) ==
    LET idx == SortedSeq({i \in 1..Len(cov) : cov[i].covered \cap uncovered # {}})
    IN  [k \in 1..Len(idx) |->
            [pi |-> cov[idx[k]].pi, covered |-> cov[idx[k]].covered \cap uncovered]]

RECURSIVE best_loop(_, _, _, _, _)
\* the for loop that chooses best_pi: an entry replaces the best so far only
\* when its coverage_size is strictly greater
best_loop(rel, remaining, k, best, best_coverage_size) ==
    IF k > Len(rel) THEN best
    ELSE LET coverage_size == Cardinality(rel[k].covered \cap remaining)
         IN  IF coverage_size > best_coverage_size
             THEN best_loop(rel, remaining, k + 1, rel[k].pi, coverage_size)
             ELSE best_loop(rel, remaining, k + 1, best, best_coverage_size)

choose_best(rel, remaining) == best_loop(rel, remaining, 1, None, 0)

\* relevant_coverage[best_pi]
entry_of(rel, t) == rel[CHOOSE k \in 1..Len(rel) : TermEq(rel[k].pi, t)].covered

\* the body of "if best_pi:": select it and remove what it newly covers
apply_best(rel, remaining, selected, best) ==
    LET newly_covered == entry_of(rel, best) \cap remaining
        idx == SortedSeq({i \in 1..Len(rel) : rel[i].covered \ newly_covered # {}})
    IN  [selected_pis |-> Append(selected, best),
         remaining_minterms |-> remaining \ newly_covered,
         relevant_coverage |->
            [k \in 1..Len(idx) |->
                [pi |-> rel[idx[k]].pi, covered |-> rel[idx[k]].covered \ newly_covered]]]

RECURSIVE greedy_loop(_, _, _)
\* the while loop of _solve_covering_problem
greedy_loop(rel, remaining, selected) ==
    IF remaining = {} \/ rel = <<>> THEN selected
    ELSE LET best == choose_best(rel, remaining)
         IN  IF best # None
             THEN LET a == apply_best(rel, remaining, selected, best)
                  IN  greedy_loop(a.relevant_coverage, a.remaining_minterms, a.selected_pis)
             ELSE selected

\* QuineMcCluskey._solve_covering_problem
solve_covering_problem(cov, uncovered_minterms) ==
    IF uncovered_minterms = {} THEN <<>>
    ELSE greedy_loop(filter_coverage(cov, uncovered_minterms), uncovered_minterms, <<>>)

\* [pi.to_expression(self.variables) for pi in pis]
expressions(pis) == [k \in 1..Len(pis) |-> to_expression(pis[k].binary_rep)]

\* minimize, step 5: the returned dictionary
build_result(pis, essential, additional) ==
    LET selected == essential \o additional
        exprs == expressions(selected)
    IN  IF \E k \in 1..Len(exprs) : exprs[k] = "1"
        THEN [simplified_expression |-> "1",
              prime_implicants |-> expressions(pis),
              essential_prime_implicants |-> expressions(essential),
              selected_prime_implicants |-> exprs,
              cost |-> 1]
        ELSE [simplified_expression |-> IF exprs = <<>> THEN "0" ELSE JoinTerms(exprs),
              prime_implicants |-> expressions(pis),
              essential_prime_implicants |-> expressions(essential),
              selected_prime_implicants |-> exprs,
              cost |-> Len(selected)]

\* minimize when self.minterms is empty
zero_result ==
    [simplified_expression |-> "0", prime_implicants |-> <<>>,
     essential_prime_implicants |-> <<>>, selected_prime_implicants |-> <<>>,
     cost |-> 0]

\* QuineMcCluskey.minimize as a function of the stored function and the
\* enumeration order
minimize_selected(n, on, dc, seed) ==
    IF on = {} THEN <<>>
    ELSE LET pis == find_prime_implicants(n, on, dc, seed)
             cov == create_coverage_table(pis, on)
             ess == find_essential_prime_implicants(cov, n, on, seed)
         IN  ess.essential_pis \o solve_covering_problem(cov, on \ ess.covered_minterms)

minimize(n, on, dc, seed) ==
    IF on = {} THEN zero_result
    ELSE LET pis == find_prime_implicants(n, on, dc, seed)
             cov == create_coverage_table(pis, on)
             ess == find_essential_prime_implicants(cov, n, on, seed)
         IN  build_result(pis, ess.essential_pis,
                          solve_covering_problem(cov, on \ ess.covered_minterms))

\* ------------------------------------------------ espresso_algorithm.Cover
\* Cover.add_cube: append unless an equal cube is already in the list
add_cube(cubes, cube) ==
    IF \E k \in 1..Len(cubes) : cubes[k] = cube THEN cubes ELSE Append(cubes, cube)

\* Cover.literal_count
cover_literal_count(cubes) == SumSeq([k \in 1..Len(cubes) |-> literal_count(cubes[k])])

RECURSIVE cubes_of(_, _, _)
\* a fresh Cover filled by add_cube(Cube(format(v, '0{n}b'))) for v in values
cubes_of(values, n, cubes) ==
    IF values = <<>> THEN cubes
    ELSE cubes_of(Tail(values), n, add_cube(cubes, decimal_to_binary(Head(values), n)))

\* --------------------------------------- espresso_algorithm.EspressoAlgorithm
\* _generate_off_set leaving the don't-cares out of all_specified
generate_off_set_ignoring_dont_cares(n, minterm_list, dont_care_list) ==
    cubes_of(SortedSeq({i \in 0..(2 ^ n - 1) : i \notin Range(minterm_list)}), n, <<>>)

\* EspressoAlgorithm._generate_off_set
generate_off_set(n, minterm_list, dont_care_list) ==
    LET all_specified == Range(minterm_list) \cup Range(dont_care_list)
    IN  cubes_of(SortedSeq({i \in 0..(2 ^ n - 1) : i \notin all_specified}), n, <<>>)

\* EspressoAlgorithm.set_function
esp_set_function(n, minterm_list, dont_care_list) ==
    [on_set |-> cubes_of(minterm_list, n, <<>>),
     dc_set |-> cubes_of(dont_care_list, n, <<>>),
     off_set |-> generate_off_set(n, minterm_list, dont_care_list)]

\* _is_valid_expansion looking at the first off-set cube only
is_valid_expansion_first_off_cube(cube, off) ==
    ~\E k \in 1..(IF off = <<>> THEN 0 ELSE 1) :
        LET intersection == intersect(cube, off[k])
        IN  /\ intersection # None
            /\ \A i \in 1..Len(intersection) : intersection[i] # "-"

\* EspressoAlgorithm._is_valid_expansion: False when the intersection with
\* some off-set cube exists and has no '-'
is_valid_expansion(cube, off) ==
    ~\E k \in 1..Len(off) :
        LET intersection == intersect(cube, off[k])
        IN  /\ intersection # None
            /\ \A i \in 1..Len(intersection) : intersection[i] # "-"

RECURSIVE expand_cube_from(_, _, _, _)
\* the loop "for i in range(self.num_variables)" of _expand_cube from position
\* i on (a cube never has fewer than n literals: format pads to the width n)
expand_cube_from(current_cube, i, off, n) ==
    IF i > n THEN current_cube
    ELSE IF current_cube[i] # "-" /\ is_valid_expansion(Relax(current_cube, i), off)
         THEN expand_cube_from(Relax(current_cube, i), i + 1, off, n)
         ELSE expand_cube_from(current_cube, i + 1, off, n)

\* EspressoAlgorithm._expand_cube
expand_cube(cube, off, n) == expand_cube_from(cube, 1, off, n)

RECURSIVE expand_from(_, _, _, _, _)
expand_from(cubes, k, off, expanded, n) ==
    IF k > Len(cubes) THEN expanded
    ELSE expand_from(cubes, k + 1, off,
                     add_cube(expanded, expand_cube(cubes[k], off, n)), n)

\* EspressoAlgorithm._expand
expand(cubes, off, n) == expand_from(cubes, 1, off, <<>>, n)

\* EspressoAlgorithm._is_cube_redundant
is_cube_redundant(cube, other_cubes) ==
    \E k \in 1..Len(other_cubes) : contains(other_cubes[k], cube)

\* [c for c in cover.cubes if c != cube]
others(cubes, cube) ==
    LET idx == SortedSeq({i \in 1..Len(cubes) : cubes[i] # cube})
    IN  [k \in 1..Len(idx) |-> cubes[idx[k]]]

RECURSIVE irredundant_from(_, _, _)
irredundant_from(cubes, k, kept) ==
    IF k > Len(cubes) THEN kept
    ELSE irredundant_from(cubes, k + 1,
            IF is_cube_redundant(cubes[k], others(cubes, cubes[k])) THEN kept
            ELSE add_cube(kept, cubes[k]))

\* EspressoAlgorithm._irredundant
irredundant(cubes) == irredundant_from(cubes, 1, <<>>)

\* EspressoAlgorithm._maintains_coverage: "a simplified check", always True
maintains_coverage(reduced_cube, other_cubes) == TRUE

RECURSIVE reduce_cube_from(_, _, _, _, _)
\* the loop "for i in range(self.num_variables)" of _reduce_cube from position
\* i on
reduce_cube_from(current_cube, i, cube, cubes, n) ==
    IF i > n THEN current_cube
    ELSE IF current_cube[i] # "-"
            /\ maintains_coverage(Relax(current_cube, i), others(cubes, cube))
         THEN reduce_cube_from(Relax(current_cube, i), i + 1, cube, cubes, n)
         ELSE reduce_cube_from(current_cube, i + 1, cube, cubes, n)

\* EspressoAlgorithm._reduce_cube
reduce_cube(cube, cubes, n) == reduce_cube_from(cube, 1, cube, cubes, n)

RECURSIVE reduce_from(_, _, _, _)
reduce_from(cubes, k, reduced, n) ==
    IF k > Len(cubes) THEN reduced
    ELSE reduce_from(cubes, k + 1, add_cube(reduced, reduce_cube(cubes[k], cubes, n)), n)

\* EspressoAlgorithm._reduce
reduce(cubes, n) == reduce_from(cubes, 1, <<>>, n)

\* Cube.to_expression raises ValueError when len(variables) differs from the
\* length of the representation; _cover_to_expression calls it on every cube
cover_to_expression_raises(cubes, n) == \E k \in 1..Len(cubes) : Len(cubes[k]) # n

\* EspressoAlgorithm._cover_to_expression
cover_to_expression(cubes) ==
    IF cubes = <<>> THEN "0"
    ELSE LET all == [k \in 1..Len(cubes) |-> to_expression(cubes[k])]
             idx == SortedSeq({k \in 1..Len(all) : all[k] # "" /\ all[k] # "0"})
             terms == [k \in 1..Len(idx) |-> all[idx[k]]]
         IN  IF terms = <<>> THEN "0" ELSE JoinTerms(terms)

\* the early return of minimize answering with the other constant
esp_zero_result_as_tautology ==
    [minimized_cover |-> <<>>, simplified_expression |-> "1", iterations |-> 0, cost |-> 0]

\* EspressoAlgorithm.minimize when on_set is empty
esp_zero_result ==
    [minimized_cover |-> <<>>, simplified_expression |-> "0", iterations |-> 0, cost |-> 0]

\* EspressoAlgorithm.minimize: the final results
esp_result(cubes, iterations) ==
    [minimized_cover |-> cubes,
     simplified_expression |-> cover_to_expression(cubes),
     iterations |-> iterations,
     cost |-> cover_literal_count(cubes),
     cube_count |-> Len(cubes)]

\* ------------------------------------------------ karnaugh_map.KarnaughMap
\* bin(m1 ^ m2).count('1') == 1
differ_by_one_bit(m1, m2, n) ==
    Cardinality({i \in 1..n : BitAt(m1, n, i) # BitAt(m2, n, i)}) = 1

\* group in list, for a list of sets
GroupIn(group, groups) == \E k \in 1..Len(groups) : groups[k] = group

\* KarnaughMap._can_combine_simple: only two single minterms one bit apart
can_combine_simple(group1, group2, n) ==
    /\ Cardinality(group1) = Cardinality(group2)
    /\ Cardinality(group1) \in {1, 2, 4}
    /\ Cardinality(group1) = 1
    /\ \E m1 \in group1 : \E m2 \in group2 : differ_by_one_bit(m1, m2, n)

\* the first j > i not in used_groups whose group combines with
\* current_groups[i]; 0 when there is none
first_partner(current_groups, i, used_groups, n) ==
    LET partners == {j \in (i + 1)..Len(current_groups) :
                        /\ j \notin used_groups
                        /\ can_combine_simple(current_groups[i], current_groups[j], n)}
    IN  IF partners = {} THEN 0 ELSE Min(partners)

RECURSIVE km_combine_pass(_, _, _, _, _, _)
\* the for loop over current_groups of find_prime_implicants, from index i on
km_combine_pass(current_groups, i, used_groups, next_groups, primes, n) ==
    IF i > Len(current_groups) THEN [next_groups |-> next_groups, primes |-> primes]
    ELSE IF i \in used_groups
         THEN km_combine_pass(current_groups, i + 1, used_groups, next_groups, primes, n)
         ELSE LET j == first_partner(current_groups, i, used_groups, n)
              IN  IF j # 0
                  THEN LET combined_group == current_groups[i] \cup current_groups[j]
                       IN  km_combine_pass(current_groups, i + 1, used_groups \cup {i, j},
                              IF GroupIn(combined_group, next_groups) THEN next_groups
                              ELSE Append(next_groups, combined_group),
                              primes, n)
                  ELSE km_combine_pass(current_groups, i + 1, used_groups, next_groups,
                                       Append(primes, current_groups[i]), n)

RECURSIVE km_append_missing(_, _)
\* for group in current_groups: append it unless it is in prime_implicants
km_append_missing(primes, groups) ==
    IF groups = <<>> THEN primes
    ELSE km_append_missing(IF GroupIn(Head(groups), primes) THEN primes
                           ELSE Append(primes, Head(groups)), Tail(groups))

RECURSIVE km_group_loop(_, _, _, _)
\* the while loop of find_prime_implicants (at most max_iters = 10
\* passes) and the loop after it
km_group_loop(current_groups, primes, iter, n) ==
    IF current_groups # <<>> /\ iter < 10
    THEN LET pass == km_combine_pass(current_groups, 1, {}, <<>>, primes, n)
         IN  km_group_loop(pass.next_groups, pass.primes, iter + 1, n)
    ELSE km_append_missing(primes, current_groups)

RECURSIVE km_pairs_3var(_, _, _, _, _)
\* _find_prime_implicants_3var, the loop that pairs the minterms of
\* minterms_list from index i on
km_pairs_3var(minterms_list, i, covered, primes, n) ==
    IF i > Len(minterms_list) THEN [primes |-> primes, covered |-> covered]
    ELSE IF minterms_list[i] \in covered
         THEN km_pairs_3var(minterms_list, i + 1, covered, primes, n)
         ELSE LET partners == {j \in (i + 1)..Len(minterms_list) :
                                  /\ minterms_list[j] \notin covered
                                  /\ differ_by_one_bit(minterms_list[i], minterms_list[j], n)}
              IN  IF partners = {}
                  THEN km_pairs_3var(minterms_list, i + 1, covered, primes, n)
                  ELSE LET m2 == minterms_list[Min(partners)]
                       IN  km_pairs_3var(minterms_list, i + 1,
                              covered \cup {minterms_list[i], m2},
                              Append(primes, {minterms_list[i], m2}), n)

\* KarnaughMap._find_prime_implicants_3var
km_find_prime_implicants_3var(on, n, seed) ==
    LET order == SetOrder(on, n, seed)
        paired == km_pairs_3var(order, 1, {}, <<>>, n)
        idx == SortedSeq({i \in 1..Len(order) : order[i] \notin paired.covered})
    IN  paired.primes \o [k \in 1..Len(idx) |-> {order[idx[k]]}]

\* KarnaughMap.find_prime_implicants
km_find_prime_implicants(on, n, seed) ==
    IF on = {} THEN <<>>
    ELSE IF n = 3 THEN km_find_prime_implicants_3var(on, n, seed)
    ELSE LET order == SetOrder(on, n, seed)
         IN  km_group_loop([k \in 1..Len(order) |-> {order[k]}], <<>>, 0, n)

RECURSIVE km_essential_loop(_, _, _)
\* the for loop of KarnaughMap.find_essential_prime_implicants
km_essential_loop(primes, order, acc) ==
    IF order = <<>> THEN acc
    ELSE LET covering == SortedSeq({k \in 1..Len(primes) : Head(order) \in primes[k]})
         IN  IF Len(covering) = 1 /\ ~GroupIn(primes[covering[1]], acc.essential)
             THEN km_essential_loop(primes, Tail(order),
                     [essential |-> Append(acc.essential, primes[covering[1]]),
                      covered_minterms |-> acc.covered_minterms \cup primes[covering[1]]])
             ELSE km_essential_loop(primes, Tail(order), acc)

\* KarnaughMap.find_essential_prime_implicants
km_find_essential_prime_implicants(primes, on, n, seed) ==
    km_essential_loop(primes, SetOrder(on, n, seed),
                      [essential |-> <<>>, covered_minterms |-> {}])

RECURSIVE km_best_loop(_, _, _, _, _, _)
\* the for loop of _find_minimum_cover that chooses best_pi (<<>> is None, <<pi>> the choice)
km_best_loop(primes, selected, remaining, k, best, best_coverage) ==
    IF k > Len(primes) THEN best
    ELSE LET coverage_size == Cardinality(primes[k] \cap remaining)
         IN  IF ~GroupIn(primes[k], selected) /\ coverage_size > best_coverage
             THEN km_best_loop(primes, selected, remaining, k + 1, <<primes[k]>>, coverage_size)
             ELSE km_best_loop(primes, selected, remaining, k + 1, best, best_coverage)

RECURSIVE km_cover_loop(_, _, _)
\* the while loop of _find_minimum_cover
km_cover_loop(primes, selected, remaining) ==
    IF remaining = {} THEN selected
    ELSE LET best == km_best_loop(primes, selected, remaining, 1, None, 0)
         IN  IF best # None
             THEN km_cover_loop(primes, Append(selected, best[1]), remaining \ best[1])
             ELSE selected

\* KarnaughMap._find_minimum_cover
km_find_minimum_cover(primes, uncovered_minterms) ==
    IF uncovered_minterms = {} THEN <<>> ELSE km_cover_loop(primes, <<>>, uncovered_minterms)

\* _pi_to_string, the pattern: the common bits of the members, '-' elsewhere
km_pattern(prime_implicant, n) ==
    [i \in 1..n |->
        IF \A m1, m2 \in prime_implicant : BitAt(m1, n, i) = BitAt(m2, n, i)
        THEN BitAt(CHOOSE m \in prime_implicant : TRUE, n, i)
        ELSE "-"]

\* KarnaughMap._pi_to_string
km_pi_to_string(prime_implicant, n) ==
    IF prime_implicant = {} THEN "" ELSE to_expression(km_pattern(prime_implicant, n))

\* [self._pi_to_string(pi) for pi in pis]
km_strings(pis, n) == [k \in 1..Len(pis) |-> km_pi_to_string(pis[k], n)]

\* KarnaughMap._generate_expression
km_generate_expression(pis, n) ==
    IF pis = <<>> THEN "0"
    ELSE LET all == km_strings(pis, n)
             idx == SortedSeq({k \in 1..Len(all) : all[k] # "" /\ all[k] # "1"})
             terms == [k \in 1..Len(idx) |-> all[idx[k]]]
         IN  IF \E k \in 1..Len(all) : all[k] = "1" THEN "1"
             ELSE IF terms = <<>> THEN "1" ELSE JoinTerms(terms)

\* minimize_expression when self.minterms is empty
km_zero_result ==
    [simplified_expression |-> "0", prime_implicants |-> <<>>,
     essential_prime_implicants |-> <<>>, cost |-> 0]

\* minimize_expression: the returned dictionary
km_build_result(primes, essential, final, n) ==
    [simplified_expression |-> km_generate_expression(final, n),
     prime_implicants |-> km_strings(primes, n),
     essential_prime_implicants |-> km_strings(essential, n),
     final_prime_implicants |-> km_strings(final, n),
     cost |-> Len(final)]

\* ---------------------------------------- multiplexer_design.MultiplexerDesign
\* (v >> i) & 1
Bit(v, i) == (v \div (2 ^ i)) % 2

RECURSIVE FloorLog2(_)
\* int(math.log2(n)) for n >= 1
FloorLog2(n) == IF n < 2 THEN 0 ELSE 1 + FloorLog2(n \div 2)

\* set_function(minterms = ...): the truth table over range(2 ** num_variables)
mux_set_function(n, minterm_list) ==
    [i \in 0..(2 ^ n - 1) |-> IF i \in minterm_list THEN 1 ELSE 0]

\* self.function_truth_table.get(key, 0)
table_get(truth_table, key) ==
    IF key \in DOMAIN truth_table THEN truth_table[key] ELSE 0

\* design_single_mux: the select lines used when none (or an empty list) is given
default_select_variables(n) ==
    LET num_select_vars == IF FloorLog2(n) > 1 THEN FloorLog2(n) ELSE 1
        count == IF num_select_vars < n THEN num_select_vars ELSE n
    IN  [i \in 1..count |-> i - 1]

\* [i for i in range(self.num_variables) if i not in select_variables]
remaining_variables_of(n, select_vars) ==
    SortedSeq({i \in 0..(n - 1) : i \notin Range(select_vars)})

\* _compute_data_input: full_minterm, the bits set by "|=" for the select and the
\* remaining variables; variable index v is bit n - 1 - v
full_minterm_of(n, select_combo, select_vars, remaining_combo, remaining_vars) ==
    LET bits == {n - 1 - select_vars[i] :
                    i \in {j \in 1..Len(select_vars) : Bit(select_combo, j - 1) = 1}}
                \cup {n - 1 - remaining_vars[i] :
                    i \in {j \in 1..Len(remaining_vars) : Bit(remaining_combo, j - 1) = 1}}
    IN  SumSeq([k \in 1..Len(SortedSeq(bits)) |-> 2 ^ SortedSeq(bits)[k]])

\* A data input is the integer 0 or 1, or an expression string. A string is
\* kept as what it spells: the list of its product terms (joined by " + "),
\* each the list of its literals, a literal being a variable name with or
\* without a prime. "0" is the empty sum, "1" the sum of one empty product
IntInput(v) == [type |-> "int", value |-> v]
StrInput(terms) == [type |-> "str", value |-> terms]
Lit(var_idx, positive) == [var |-> var_idx, positive |-> positive]

\* _minterms_to_expression: one product per minterm, bit i of the minterm
\* giving the polarity of variables[i]
minterms_to_expression(minterm_list, variables) ==
    StrInput([k \in 1..Len(minterm_list) |->
                [i \in 1..Len(variables) |->
                    Lit(variables[i], Bit(minterm_list[k], i - 1) = 1)]])

\* _two_variable_expression: the dictionary of the ten one- and two-minterm
\* functions, written with var_names[0] and var_names[1]; any other list falls
\* back to _minterms_to_expression(minterms, [0, 1])
two_variable_expression(minterm_list, var_names) ==
    LET v0 == var_names[1]
        v1 == var_names[2]
        key == Range(minterm_list)
    IN  IF minterm_list = <<>> THEN StrInput(<<>>)
        ELSE IF Len(minterm_list) = 4 THEN StrInput(<< <<>> >>)
        ELSE IF key = {0} THEN StrInput(<< <<Lit(v0, FALSE), Lit(v1, FALSE)>> >>)
        ELSE IF key = {1} THEN StrInput(<< <<Lit(v0, FALSE), Lit(v1, TRUE)>> >>)
        ELSE IF key = {2} THEN StrInput(<< <<Lit(v0, TRUE), Lit(v1, FALSE)>> >>)
        ELSE IF key = {3} THEN StrInput(<< <<Lit(v0, TRUE), Lit(v1, TRUE)>> >>)
        ELSE IF key = {0, 1} THEN StrInput(<< <<Lit(v0, FALSE)>> >>)
        ELSE IF key = {2, 3} THEN StrInput(<< <<Lit(v0, TRUE)>> >>)
        ELSE IF key = {0, 2} THEN StrInput(<< <<Lit(v1, FALSE)>> >>)
        ELSE IF key = {1, 3} THEN StrInput(<< <<Lit(v1, TRUE)>> >>)
        ELSE IF key = {0, 3}
             THEN StrInput(<< <<Lit(v0, FALSE), Lit(v1, FALSE)>>,
                              <<Lit(v0, TRUE), Lit(v1, TRUE)>> >>)
        ELSE IF key = {1, 2}
             THEN StrInput(<< <<Lit(v0, FALSE), Lit(v1, TRUE)>>,
                              <<Lit(v0, TRUE), Lit(v1, FALSE)>> >>)
        ELSE minterms_to_expression(minterm_list, <<0, 1>>)

\* _analyze_data_function: truth_table is the list of outputs by remaining_combo
analyze_data_function(truth_table, variables) ==
    LET minterm_list == SortedSeq({i \in DOMAIN truth_table : truth_table[i] = 1})
    IN  IF \A i \in DOMAIN truth_table : truth_table[i] = 0 THEN IntInput(0)
        ELSE IF \A i \in DOMAIN truth_table : truth_table[i] = 1 THEN IntInput(1)
        ELSE IF Len(variables) = 1 /\ minterm_list = <<0>>
             THEN StrInput(<< <<Lit(variables[1], FALSE)>> >>)
        ELSE IF Len(variables) = 1 /\ minterm_list = <<1>>
             THEN StrInput(<< <<Lit(variables[1], TRUE)>> >>)
        ELSE IF Len(variables) = 2
             THEN two_variable_expression(minterm_list, variables)
        ELSE minterms_to_expression(minterm_list, variables)

\* MultiplexerDesign._compute_data_input
compute_data_input(truth_table, n, select_combo, select_vars, remaining_vars) ==
    IF remaining_vars = <<>> THEN IntInput(table_get(truth_table, select_combo))
    ELSE analyze_data_function(
            [remaining_combo \in 0..(2 ^ Len(remaining_vars) - 1) |->
                table_get(truth_table,
                          full_minterm_of(n, select_combo, select_vars,
                                          remaining_combo, remaining_vars))],
            remaining_vars)

\* MultiplexerDesign.design_single_mux: select_variable_indices and data_inputs
design_single_mux(truth_table, n, select_vars_arg) ==
    LET select_vars == IF select_vars_arg = <<>> THEN default_select_variables(n)
                       ELSE select_vars_arg
        remaining_vars == remaining_variables_of(n, select_vars)
    IN  [select_variable_indices |-> select_vars,
         data_inputs |-> [select_combo \in 0..(2 ^ Len(select_vars) - 1) |->
                            compute_data_input(truth_table, n, select_combo,
                                               select_vars, remaining_vars)]]

\* the values a caller may pass when nothing is assumed about the arguments:
\* -1, 2^n and the smallest in-range values
CallValues(n) == {-1, 2 ^ n} \cup {v \in 0..MaxCallValue : v < 2 ^ n}

\* ------------------------------------------------------------ state machine
\* the values a caller passes as minterms or don't-cares
Values(n) == {v \in 0..MaxMinterm : v < 2 ^ n}
Seeds(n) == {sd \in 0..MaxSeed : sd < 2 ^ n}

\* QuineMcCluskey(num_variables), EspressoAlgorithm(num_variables): the fields
\* after __init__; locals of calls not yet made are empty
Init ==
    /\ num_variables \in 1..MaxVars
    /\ minterms = {} /\ dont_cares = {} /\ hash_seed = 0 /\ pc = "idle"
    /\ current_terms = <<>> /\ generation = 0 /\ prime_implicants = <<>> /\ coverage = <<>>
    /\ essential_pis = <<>> /\ covered_by_essential = {}
    /\ relevant_coverage = <<>> /\ remaining_minterms = {} /\ selected_pis = <<>>
    /\ best_pi = None /\ result = None
    /\ on_set = <<>> /\ dc_set = <<>> /\ off_set = <<>> /\ e_pc = "idle"
    /\ max_iterations = 0 /\ iteration = 0 /\ current_cover = <<>> /\ old_cost = 0
    /\ expanded_cover = <<>> /\ irredundant_cover = <<>> /\ reduced_cover = <<>>
    /\ e_result = None
    /\ cube_a = None /\ cube_b = None /\ cube_out = None
    /\ km_minterms = {} /\ km_maxterms = {} /\ km_hash_seed = 0 /\ km_pc = "idle"
    /\ km_prime_implicants = <<>> /\ km_essential_pis = <<>>
    /\ km_covered_minterms = {} /\ km_final_pis = <<>> /\ km_result = None
    /\ function_truth_table = <<>> /\ mux_minterms = {} /\ mux_pc = "idle"
    /\ select_variables = <<>> /\ data_inputs = <<>>
    /\ qm_calls = 0 /\ e_calls = 0

\* qm.set_function(minterms, dont_cares) with valid input: disjoint, in range
QMSetFunction ==
    /\ pc = "idle"
    /\ \E on \in SUBSET Values(num_variables) :
       \E dc \in SUBSET (Values(num_variables) \ on) :
       \E seed \in Seeds(num_variables) :
          LET r == set_function(num_variables, on, dc)
          IN  /\ minterms' = r.minterms
              /\ dont_cares' = r.dont_cares
              /\ hash_seed' = seed
              /\ pc' = IF r.raised THEN "rejected" ELSE "ready"
    /\ UNCHANGED <<num_variables, current_terms, generation, prime_implicants, coverage,
                   essential_pis, covered_by_essential, relevant_coverage,
                   remaining_minterms, selected_pis, best_pi, result, espVars, cubeVars, kmVars, muxVars, callVars>>

\* qm.minimize(): the early return for an empty function, else step 1 of
\* _find_prime_implicants. minimize reads the fields whatever the last
\* set_function call did with them
QMMinimizeBegin ==
    /\ pc \in {"ready", "rejected"}
    /\ IF minterms = {}
       THEN /\ result' = zero_result
            /\ pc' = "done"
            /\ UNCHANGED <<current_terms, generation>>
       ELSE /\ current_terms' = initial_terms(num_variables, minterms, dont_cares, hash_seed)
            /\ generation' = 0
            /\ pc' = "generate"
            /\ UNCHANGED result
    /\ UNCHANGED <<num_variables, minterms, dont_cares, hash_seed, prime_implicants,
                   coverage, essential_pis, covered_by_essential, relevant_coverage,
                   remaining_minterms, selected_pis, best_pi, espVars, cubeVars, kmVars, muxVars, callVars>>

\* one iteration of "while current_terms"
QMGeneration ==
    /\ pc = "generate"
    /\ current_terms # <<>>
    /\ LET g == generation_step(current_terms)
       IN  /\ current_terms' = g.next_terms
           /\ prime_implicants' = prime_implicants \o g.primes
    /\ generation' = generation + 1
    /\ UNCHANGED <<num_variables, minterms, dont_cares, hash_seed, pc, coverage,
                   essential_pis, covered_by_essential, relevant_coverage,
                   remaining_minterms, selected_pis, best_pi, result, espVars, cubeVars, kmVars, muxVars, callVars>>

\* the loop has ended: minimize step 2, _create_coverage_table
QMCreateCoverageTable ==
    /\ pc = "generate"
    /\ current_terms = <<>>
    /\ coverage' = create_coverage_table(prime_implicants, minterms)
    /\ pc' = "essential"
    /\ UNCHANGED <<num_variables, minterms, dont_cares, hash_seed, current_terms, generation,
                   prime_implicants, essential_pis, covered_by_essential,
                   relevant_coverage, remaining_minterms, selected_pis, best_pi,
                   result, espVars, cubeVars, kmVars, muxVars, callVars>>

\* _find_essential_prime_implicants taking the covered minterms out of
\* self.minterms
QMFindEssential_consuming_minterms ==
    /\ pc = "essential"
    /\ LET e == find_essential_prime_implicants(coverage, num_variables, minterms, hash_seed)
       IN  /\ essential_pis' = e.essential_pis
           /\ covered_by_essential' = e.covered_minterms
           /\ minterms' = minterms \ e.covered_minterms
    /\ pc' = "solve"
    /\ UNCHANGED <<num_variables, dont_cares, hash_seed, current_terms, generation,
                   prime_implicants, coverage, relevant_coverage, remaining_minterms,
                   selected_pis, best_pi, result, espVars, cubeVars, kmVars, muxVars,
                   callVars>>

\* minimize step 3, _find_essential_prime_implicants
QMFindEssential ==
    /\ pc = "essential"
    /\ LET e == find_essential_prime_implicants(coverage, num_variables, minterms, hash_seed)
       IN  /\ essential_pis' = e.essential_pis
           /\ covered_by_essential' = e.covered_minterms
    /\ pc' = "solve"
    /\ UNCHANGED <<num_variables, minterms, dont_cares, hash_seed, current_terms, generation,
                   prime_implicants, coverage, relevant_coverage, remaining_minterms,
                   selected_pis, best_pi, result, espVars, cubeVars, kmVars, muxVars, callVars>>

\* minimize step 4: _solve_covering_problem up to its while loop
QMSolveBegin ==
    /\ pc = "solve"
    /\ LET uncovered_minterms == minterms \ covered_by_essential
       IN  IF uncovered_minterms = {}
           THEN /\ pc' = "combine"
                /\ UNCHANGED <<relevant_coverage, remaining_minterms>>
           ELSE /\ relevant_coverage' = filter_coverage(coverage, uncovered_minterms)
                /\ remaining_minterms' = uncovered_minterms
                /\ pc' = "choose"
    /\ selected_pis' = <<>>
    /\ UNCHANGED <<num_variables, minterms, dont_cares, hash_seed, current_terms, generation,
                   prime_implicants, coverage, essential_pis, covered_by_essential,
                   best_pi, result, espVars, cubeVars, kmVars, muxVars, callVars>>

\* the while test and the for loop that chooses best_pi
QMGreedyChoose ==
    /\ pc = "choose"
    /\ IF remaining_minterms # {} /\ relevant_coverage # <<>>
       THEN /\ best_pi' = choose_best(relevant_coverage, remaining_minterms)
            /\ pc' = "apply"
       ELSE /\ pc' = "combine"
            /\ UNCHANGED best_pi
    /\ UNCHANGED <<num_variables, minterms, dont_cares, hash_seed, current_terms, generation,
                   prime_implicants, coverage, essential_pis, covered_by_essential,
                   relevant_coverage, remaining_minterms, selected_pis, result,
                   espVars, cubeVars, kmVars, muxVars, callVars>>

\* "if best_pi: ... else: break"
QMGreedyApply ==
    /\ pc = "apply"
    /\ IF best_pi # None
       THEN LET a == apply_best(relevant_coverage, remaining_minterms, selected_pis, best_pi)
            IN  /\ selected_pis' = a.selected_pis
                /\ remaining_minterms' = a.remaining_minterms
                /\ relevant_coverage' = a.relevant_coverage
                /\ pc' = "choose"
       ELSE /\ pc' = "combine"
            /\ UNCHANGED <<selected_pis, remaining_minterms, relevant_coverage>>
    /\ UNCHANGED <<num_variables, minterms, dont_cares, hash_seed, current_terms, generation,
                   prime_implicants, coverage, essential_pis, covered_by_essential,
                   best_pi, result, espVars, cubeVars, kmVars, muxVars, callVars>>

\* minimize step 5: combine the results and return; Term.to_expression raises
\* ValueError for a term whose binary_rep is not num_variables long
QMCombine ==
    /\ pc = "combine"
    /\ IF \E k \in 1..Len(prime_implicants) :
              Len(prime_implicants[k].binary_rep) # num_variables
       THEN /\ pc' = "raised"
            /\ UNCHANGED result
       ELSE /\ result' = build_result(prime_implicants, essential_pis, selected_pis)
            /\ pc' = "done"
    /\ UNCHANGED <<num_variables, minterms, dont_cares, hash_seed, current_terms, generation,
                   prime_implicants, coverage, essential_pis, covered_by_essential,
                   relevant_coverage, remaining_minterms, selected_pis, best_pi,
                   espVars, cubeVars, kmVars, muxVars, callVars>>

\* the values of the first set_function call on an engine: -1, 2^n and the
\* in-range values up to MaxSolverValue
FirstCallValues(n) == {-1, 2 ^ n} \cup {v \in 0..MaxSolverValue : v < 2 ^ n}

\* qm.set_function(minterms, dont_cares) with any lists, as the first call on
\* the engine
QMSetFunctionAny ==
    /\ pc = "idle"
    /\ \E on \in SUBSET FirstCallValues(num_variables) :
       \E dc \in SUBSET FirstCallValues(num_variables) :
       \E seed \in Seeds(num_variables) :
          LET r == set_function(num_variables, on, dc)
          IN  /\ minterms' = r.minterms
              /\ dont_cares' = r.dont_cares
              /\ hash_seed' = seed
              /\ pc' = IF r.raised THEN "rejected" ELSE "ready"
    /\ UNCHANGED <<num_variables, current_terms, generation, prime_implicants, coverage,
                   essential_pis, covered_by_essential, relevant_coverage,
                   remaining_minterms, selected_pis, best_pi, result, espVars, cubeVars,
                   kmVars, muxVars, callVars>>

\* qm.set_function(minterms) with any list over CallValues and dont_cares left
\* at its default, on an engine whose minimize has returned: the locals of the
\* finished call are gone, the caller still holds the dictionary it returned
QMSetFunctionAgain ==
    /\ pc = "done"
    /\ \E on \in SUBSET CallValues(num_variables) :
          LET r == set_function(num_variables, on, {})
          IN  /\ minterms' = r.minterms
              /\ dont_cares' = r.dont_cares
              /\ pc' = IF r.raised THEN "rejected" ELSE "ready"
    /\ current_terms' = <<>> /\ generation' = 0 /\ prime_implicants' = <<>>
    /\ coverage' = <<>> /\ essential_pis' = <<>> /\ covered_by_essential' = {}
    /\ relevant_coverage' = <<>> /\ remaining_minterms' = {} /\ selected_pis' = <<>>
    /\ best_pi' = None
    /\ UNCHANGED <<num_variables, hash_seed, result, espVars, cubeVars, kmVars, muxVars,
                   callVars>>

NextQMCalls ==
    \/ QMSetFunctionAny
    \/ QMSetFunctionAgain
    \/ QMMinimizeBegin
    \/ QMGeneration
    \/ QMCreateCoverageTable
    \/ QMFindEssential
    \/ QMSolveBegin
    \/ QMGreedyChoose
    \/ QMGreedyApply
    \/ QMCombine

SpecQMCalls == Init /\ [][NextQMCalls]_vars

NextQM ==
    \/ QMSetFunction
    \/ QMMinimizeBegin
    \/ QMGeneration
    \/ QMCreateCoverageTable
    \/ QMFindEssential
    \/ QMSolveBegin
    \/ QMGreedyChoose
    \/ QMGreedyApply
    \/ QMCombine

SpecQM == Init /\ [][NextQM]_vars

\* the elements of a list at the positions of keep, in order
SubList(list, keep) ==
    LET idx == SortedSeq(keep) IN [k \in 1..Len(idx) |-> list[idx[k]]]

\* _create_coverage_table and the calls that follow it, entered directly with a
\* list of implicants: any sub-list of the prime implicants of a function
\* over 0..MaxSolverValue, which is what a defective generation would hand
\* to the covering steps
QMCoverageOf ==
    /\ pc = "idle"
    /\ \E on \in SUBSET {v \in 0..MaxSolverValue : v < 2 ^ num_variables} :
       \E dc \in SUBSET ({v \in 0..MaxSolverValue : v < 2 ^ num_variables} \ on) :
       \E seed \in Seeds(num_variables) :
          LET pis == find_prime_implicants(num_variables, on, dc, seed)
          IN  \E keep \in SUBSET (1..Len(pis)) :
                 /\ on # {}
                 /\ minterms' = on
                 /\ dont_cares' = dc
                 /\ hash_seed' = seed
                 /\ prime_implicants' = SubList(pis, keep)
                 /\ coverage' = create_coverage_table(SubList(pis, keep), on)
    /\ pc' = "essential"
    /\ UNCHANGED <<num_variables, current_terms, generation, essential_pis, covered_by_essential,
                   relevant_coverage, remaining_minterms, selected_pis, best_pi,
                   result, espVars, cubeVars, kmVars, muxVars, callVars>>

NextSolver ==
    \/ QMCoverageOf
    \/ QMFindEssential
    \/ QMSolveBegin
    \/ QMGreedyChoose
    \/ QMGreedyApply
    \/ QMCombine

SpecSolver == Init /\ [][NextSolver]_vars

\* espresso.set_function(minterms, dont_cares) with valid input, the lists in
\* ascending order
EspSetFunction ==
    /\ e_pc = "idle"
    /\ \E on \in SUBSET Values(num_variables) :
       \E dc \in SUBSET (Values(num_variables) \ on) :
          LET r == esp_set_function(num_variables, SortedSeq(on), SortedSeq(dc))
          IN  /\ on_set' = r.on_set
              /\ dc_set' = r.dc_set
              /\ off_set' = r.off_set
    /\ e_pc' = "ready"
    /\ UNCHANGED <<num_variables, qmVars, max_iterations, iteration, current_cover,
                   old_cost, expanded_cover, irredundant_cover, reduced_cover,
                   e_result, cubeVars, kmVars, muxVars, callVars>>

\* espresso.minimize(max_iterations): the early return, else the initial cover
EspMinimizeBegin ==
    /\ e_pc = "ready"
    /\ \E k \in 0..MaxIter : max_iterations' = k
    /\ IF on_set = <<>>
       THEN /\ e_result' = esp_zero_result
            /\ e_pc' = "done"
            /\ UNCHANGED <<current_cover, iteration>>
       ELSE /\ current_cover' = on_set
            /\ iteration' = 0
            /\ e_pc' = "loop"
            /\ e_result' = None
    /\ UNCHANGED <<num_variables, qmVars, on_set, dc_set, off_set, old_cost,
                   expanded_cover, irredundant_cover, reduced_cover, cubeVars, kmVars, muxVars, callVars>>

\* "while iteration < max_iterations": old_cost and the EXPAND phase
EspExpand ==
    /\ e_pc = "loop"
    /\ iteration < max_iterations
    /\ old_cost' = cover_literal_count(current_cover)
    /\ expanded_cover' = expand(current_cover, off_set, num_variables)
    /\ e_pc' = "irredundant"
    /\ UNCHANGED <<num_variables, qmVars, on_set, dc_set, off_set, max_iterations,
                   iteration, current_cover, irredundant_cover, reduced_cover,
                   e_result, cubeVars, kmVars, muxVars, callVars>>

\* the IRREDUNDANT phase
EspIrredundant ==
    /\ e_pc = "irredundant"
    /\ irredundant_cover' = irredundant(expanded_cover)
    /\ e_pc' = "reduce"
    /\ UNCHANGED <<num_variables, qmVars, on_set, dc_set, off_set, max_iterations,
                   iteration, current_cover, old_cost, expanded_cover, reduced_cover,
                   e_result, cubeVars, kmVars, muxVars, callVars>>

\* the REDUCE phase
EspReduce ==
    /\ e_pc = "reduce"
    /\ reduced_cover' = reduce(irredundant_cover, num_variables)
    /\ e_pc' = "check"
    /\ UNCHANGED <<num_variables, qmVars, on_set, dc_set, off_set, max_iterations,
                   iteration, current_cover, old_cost, expanded_cover,
                   irredundant_cover, e_result, cubeVars, kmVars, muxVars, callVars>>

\* the improvement check adopting every pass
EspCheck_adopting_every_pass ==
    /\ e_pc = "check"
    /\ current_cover' = reduced_cover
    /\ iteration' = iteration + 1
    /\ e_pc' = "loop"
    /\ UNCHANGED <<num_variables, qmVars, on_set, dc_set, off_set, max_iterations,
                   old_cost, expanded_cover, irredundant_cover, reduced_cover,
                   e_result, cubeVars, kmVars, muxVars, callVars>>

\* the improvement check breaking only when the cost has grown
EspCheck_adopting_equal_cost ==
    /\ e_pc = "check"
    /\ LET new_cost == cover_literal_count(reduced_cover)
       IN  IF new_cost > old_cost
           THEN /\ e_pc' = "finish"
                /\ UNCHANGED <<current_cover, iteration>>
           ELSE /\ current_cover' = reduced_cover
                /\ iteration' = iteration + 1
                /\ e_pc' = "loop"
    /\ UNCHANGED <<num_variables, qmVars, on_set, dc_set, off_set, max_iterations,
                   old_cost, expanded_cover, irredundant_cover, reduced_cover,
                   e_result, cubeVars, kmVars, muxVars, callVars>>

\* "if new_cost >= old_cost: break", else adopt the pass
EspCheck ==
    /\ e_pc = "check"
    /\ LET new_cost == cover_literal_count(reduced_cover)
       IN  IF new_cost >= old_cost
           THEN /\ e_pc' = "finish"
                /\ UNCHANGED <<current_cover, iteration>>
           ELSE /\ current_cover' = reduced_cover
                /\ iteration' = iteration + 1
                /\ e_pc' = "loop"
    /\ UNCHANGED <<num_variables, qmVars, on_set, dc_set, off_set, max_iterations,
                   old_cost, expanded_cover, irredundant_cover, reduced_cover,
                   e_result, cubeVars, kmVars, muxVars, callVars>>

\* after the loop: the final results, or the ValueError of Cube.to_expression
\* when a cube of the cover has not num_variables literals
EspFinish ==
    /\ \/ e_pc = "finish"
       \/ e_pc = "loop" /\ iteration >= max_iterations
    /\ IF cover_to_expression_raises(current_cover, num_variables)
       THEN /\ e_pc' = "raised"
            /\ UNCHANGED e_result
       ELSE /\ e_result' = esp_result(current_cover, iteration)
            /\ e_pc' = "done"
    /\ UNCHANGED <<num_variables, qmVars, on_set, dc_set, off_set, max_iterations,
                   iteration, current_cover, old_cost, expanded_cover,
                   irredundant_cover, reduced_cover, cubeVars, kmVars, muxVars, callVars>>

NextEsp ==
    \/ EspSetFunction
    \/ EspMinimizeBegin
    \/ EspExpand
    \/ EspIrredundant
    \/ EspReduce
    \/ EspCheck
    \/ EspFinish

SpecEsp == Init /\ [][NextEsp]_vars

\* espresso.set_function(minterms, dont_cares) with valid input over
\* 0..MaxSolverValue
EspSetFunctionFew ==
    /\ e_pc = "idle"
    /\ \E on \in SUBSET {v \in 0..MaxSolverValue : v < 2 ^ num_variables} :
       \E dc \in SUBSET ({v \in 0..MaxSolverValue : v < 2 ^ num_variables} \ on) :
          LET r == esp_set_function(num_variables, SortedSeq(on), SortedSeq(dc))
          IN  /\ on_set' = r.on_set
              /\ dc_set' = r.dc_set
              /\ off_set' = r.off_set
    /\ e_pc' = "ready"
    /\ UNCHANGED <<num_variables, qmVars, max_iterations, iteration, current_cover,
                   old_cost, expanded_cover, irredundant_cover, reduced_cover,
                   e_result, cubeVars, kmVars, muxVars, callVars>>

\* the steps of a minimize call that has been entered
EspMinimizeStep ==
    \/ EspExpand
    \/ EspIrredundant
    \/ EspReduce
    \/ EspCheck
    \/ EspFinish

NextEspLive ==
    \/ EspSetFunctionFew
    \/ EspMinimizeBegin
    \/ EspMinimizeStep

\* minimize is a sequential call: once entered, its next step is taken
SpecEspLive == Init /\ [][NextEspLive]_vars /\ WF_vars(EspMinimizeStep)

\* the place of a cube in the ascending order of the literal strings
\* ('-' before '0' before '1')
CubeRank(cube) ==
    SumSeq([i \in 1..Len(cube) |->
              (IF cube[i] = "-" THEN 0 ELSE IF cube[i] = "0" THEN 1 ELSE 2)
                  * 3 ^ (Len(cube) - i)])

\* the covers of 1..MaxCoverLen distinct cubes of n literals, each listed in
\* ascending order of its cubes
Covers(n) ==
    {cv \in UNION {[1..k -> Cubes(n)] : k \in 1..MaxCoverLen} :
        \A i \in 1..Len(cv) : \A j \in 1..Len(cv) :
            i < j => CubeRank(cv[i]) < CubeRank(cv[j])}

\* self._irredundant(cover) called directly on a cover
EspIrredundantOf ==
    /\ e_pc = "idle"
    /\ \E cv \in Covers(num_variables) : expanded_cover' = cv
    /\ e_pc' = "irredundant"
    /\ UNCHANGED <<num_variables, qmVars, on_set, dc_set, off_set, max_iterations,
                   iteration, current_cover, old_cost, irredundant_cover,
                   reduced_cover, e_result, cubeVars, kmVars, muxVars, callVars>>

NextIrredundant ==
    \/ EspIrredundantOf
    \/ EspIrredundant

SpecIrredundant == Init /\ [][NextIrredundant]_vars

\* what set_function leaves in on_set, dc_set and off_set, for every pair of
\* argument lists over CallValues (the lists in ascending order), tabulated once
EspCallResults ==
    [n \in 1..MaxVars |->
        {esp_set_function(n, SortedSeq(on), SortedSeq(dc)) :
            on \in SUBSET CallValues(n), dc \in SUBSET CallValues(n)}]

\* espresso.set_function(minterms, dont_cares) with any arguments: the caller
\* sets a function once or several times in a row, minimizes, and may then set
\* another function. The locals of a finished minimize call are gone, the
\* dictionary it returned stays with the caller
EspSetFunctionAny ==
    /\ \/ e_pc \in {"idle", "done", "raised"}
       \/ e_pc = "ready" /\ e_result = None
    /\ \E r \in EspCallResults[num_variables] :
          /\ on_set' = r.on_set
          /\ dc_set' = r.dc_set
          /\ off_set' = r.off_set
    /\ e_pc' = "ready"
    /\ max_iterations' = 0 /\ iteration' = 0 /\ old_cost' = 0
    /\ current_cover' = <<>> /\ expanded_cover' = <<>>
    /\ irredundant_cover' = <<>> /\ reduced_cover' = <<>>
    /\ UNCHANGED <<num_variables, qmVars, e_result, cubeVars, kmVars, muxVars, callVars>>

NextEspCalls ==
    \/ EspSetFunctionAny
    \/ EspMinimizeBegin
    \/ EspExpand
    \/ EspIrredundant
    \/ EspReduce
    \/ EspCheck
    \/ EspFinish

SpecEspCalls == Init /\ [][NextEspCalls]_vars

\* the same valid function over 0..MaxSolverValue given to both engines, as
\* comprehensive_comparison_test does
SetFunctionBoth ==
    /\ pc = "idle" /\ e_pc = "idle"
    /\ \E on \in SUBSET {v \in 0..MaxSolverValue : v < 2 ^ num_variables} :
       \E dc \in SUBSET ({v \in 0..MaxSolverValue : v < 2 ^ num_variables} \ on) :
       \E seed \in Seeds(num_variables) :
          LET r == set_function(num_variables, on, dc)
              e == esp_set_function(num_variables, SortedSeq(on), SortedSeq(dc))
          IN  /\ minterms' = r.minterms
              /\ dont_cares' = r.dont_cares
              /\ hash_seed' = seed
              /\ on_set' = e.on_set
              /\ dc_set' = e.dc_set
              /\ off_set' = e.off_set
    /\ pc' = "ready" /\ e_pc' = "ready"
    /\ UNCHANGED <<num_variables, current_terms, generation, prime_implicants, coverage,
                   essential_pis, covered_by_essential, relevant_coverage,
                   remaining_minterms, selected_pis, best_pi, result, max_iterations,
                   iteration, current_cover, old_cost, expanded_cover,
                   irredundant_cover, reduced_cover, e_result, cubeVars, kmVars,
                   muxVars, callVars>>

\* qm.minimize() called again after it has returned: the locals of the
\* finished call are gone, the caller still holds the dictionary it returned
QMMinimizeAgain ==
    /\ pc = "done"
    /\ qm_calls < MaxCalls
    /\ qm_calls' = qm_calls + 1
    /\ pc' = "ready"
    /\ current_terms' = <<>> /\ generation' = 0 /\ prime_implicants' = <<>>
    /\ coverage' = <<>> /\ essential_pis' = <<>> /\ covered_by_essential' = {}
    /\ relevant_coverage' = <<>> /\ remaining_minterms' = {} /\ selected_pis' = <<>>
    /\ best_pi' = None
    /\ UNCHANGED <<num_variables, minterms, dont_cares, hash_seed, result, espVars,
                   cubeVars, kmVars, muxVars, e_calls>>

\* espresso.minimize(max_iterations) called again with the same argument after
\* it has returned
EspMinimizeAgain ==
    /\ e_pc = "done"
    /\ e_calls < MaxCalls
    /\ e_calls' = e_calls + 1
    /\ IF on_set = <<>>
       THEN /\ e_result' = esp_zero_result
            /\ e_pc' = "done"
            /\ UNCHANGED <<current_cover, iteration>>
       ELSE /\ current_cover' = on_set
            /\ iteration' = 0
            /\ e_pc' = "loop"
            /\ UNCHANGED e_result
    /\ UNCHANGED <<num_variables, qmVars, on_set, dc_set, off_set, max_iterations,
                   old_cost, expanded_cover, irredundant_cover, reduced_cover,
                   cubeVars, kmVars, muxVars, qm_calls>>

\* the caller repeats qm.minimize() before turning to the other engine
QMMinimizeAgainFirst == e_pc = "ready" /\ QMMinimizeAgain

\* the caller turns to espresso.minimize once qm.minimize has returned
EspMinimizeAfterQM == pc = "done" /\ EspMinimizeBegin

NextRepeat ==
    \/ SetFunctionBoth
    \/ QMMinimizeBegin
    \/ QMGeneration
    \/ QMCreateCoverageTable
    \/ QMFindEssential
    \/ QMSolveBegin
    \/ QMGreedyChoose
    \/ QMGreedyApply
    \/ QMCombine
    \/ QMMinimizeAgainFirst
    \/ EspMinimizeAfterQM
    \/ EspExpand
    \/ EspIrredundant
    \/ EspReduce
    \/ EspCheck
    \/ EspFinish
    \/ EspMinimizeAgain

SpecRepeat == Init /\ [][NextRepeat]_vars

\* a.merge(b) on two cubes of num_variables literals
CubeMerge ==
    /\ cube_out = None
    /\ \E a \in Cubes(num_variables) : \E b \in Cubes(num_variables) :
          /\ cube_a' = a
          /\ cube_b' = b
          /\ cube_out' = [op |-> "merge", value |-> merge(a, b)]
    /\ UNCHANGED <<num_variables, qmVars, espVars, kmVars, muxVars, callVars>>

\* a.contains(b)
CubeContains ==
    /\ cube_out = None
    /\ \E a \in Cubes(num_variables) : \E b \in Cubes(num_variables) :
          /\ cube_a' = a
          /\ cube_b' = b
          /\ cube_out' = [op |-> "contains", value |-> contains(a, b)]
    /\ UNCHANGED <<num_variables, qmVars, espVars, kmVars, muxVars, callVars>>

\* a.intersect(b)
CubeIntersect ==
    /\ cube_out = None
    /\ \E a \in Cubes(num_variables) : \E b \in Cubes(num_variables) :
          /\ cube_a' = a
          /\ cube_b' = b
          /\ cube_out' = [op |-> "intersect", value |-> intersect(a, b)]
    /\ UNCHANGED <<num_variables, qmVars, espVars, kmVars, muxVars, callVars>>

NextCube ==
    \/ CubeMerge
    \/ CubeContains
    \/ CubeIntersect

SpecCube == Init /\ [][NextCube]_vars

\* KarnaughMap(num_variables).set_function_from_minterms(minterms); the
\* constructor accepts 2 to 6 variables. kmap[i] is 1 exactly for the i of
\* minterms and is not kept separately
KMapSetFunction ==
    /\ km_pc = "idle"
    /\ num_variables >= 2
    /\ \E on \in SUBSET Values(num_variables) :
       \E seed \in Seeds(num_variables) :
          /\ km_minterms' = on
          /\ km_maxterms' = (0..(2 ^ num_variables - 1)) \ on
          /\ km_hash_seed' = seed
    /\ km_pc' = "ready"
    /\ UNCHANGED <<num_variables, qmVars, espVars, cubeVars, muxVars, callVars, km_prime_implicants,
                   km_essential_pis, km_covered_minterms, km_final_pis, km_result>>

\* kmap.minimize_expression(): the early return for an empty function, else
\* find_prime_implicants
KMapFindPrimeImplicants ==
    /\ km_pc = "ready"
    /\ IF km_minterms = {}
       THEN /\ km_result' = km_zero_result
            /\ km_pc' = "done"
            /\ UNCHANGED km_prime_implicants
       ELSE /\ km_prime_implicants'
                  = km_find_prime_implicants(km_minterms, num_variables, km_hash_seed)
            /\ km_pc' = "essential"
            /\ UNCHANGED km_result
    /\ UNCHANGED <<num_variables, qmVars, espVars, cubeVars, muxVars, callVars, km_minterms, km_maxterms,
                   km_hash_seed, km_essential_pis, km_covered_minterms, km_final_pis>>

\* minimize_expression: find_essential_prime_implicants
KMapFindEssential ==
    /\ km_pc = "essential"
    /\ LET e == km_find_essential_prime_implicants(km_prime_implicants, km_minterms,
                                                   num_variables, km_hash_seed)
       IN  /\ km_essential_pis' = e.essential
           /\ km_covered_minterms' = e.covered_minterms
    /\ km_pc' = "cover"
    /\ UNCHANGED <<num_variables, qmVars, espVars, cubeVars, muxVars, callVars, km_minterms, km_maxterms,
                   km_hash_seed, km_prime_implicants, km_final_pis, km_result>>

\* minimize_expression: _find_minimum_cover for the remaining minterms, the
\* final implicants and the returned dictionary
KMapMinimumCover ==
    /\ km_pc = "cover"
    /\ LET remaining_minterms0 == km_minterms \ km_covered_minterms
           additional_pis == km_find_minimum_cover(km_prime_implicants, remaining_minterms0)
           final_pis == km_essential_pis \o additional_pis
       IN  /\ km_final_pis' = final_pis
           /\ km_result' = km_build_result(km_prime_implicants, km_essential_pis,
                                           final_pis, num_variables)
    /\ km_pc' = "done"
    /\ UNCHANGED <<num_variables, qmVars, espVars, cubeVars, muxVars, callVars, km_minterms, km_maxterms,
                   km_hash_seed, km_prime_implicants, km_essential_pis,
                   km_covered_minterms>>

NextKMap ==
    \/ KMapSetFunction
    \/ KMapFindPrimeImplicants
    \/ KMapFindEssential
    \/ KMapMinimumCover

SpecKMap == Init /\ [][NextKMap]_vars

\* the lists of distinct variable indices a caller may pass as select
\* variables; the empty list asks for the default
SelectChoices(n) ==
    {sv \in UNION {[1..k -> 0..(n - 1)] : k \in 0..n} :
        \A i \in 1..Len(sv) : \A j \in 1..Len(sv) : i # j => sv[i] # sv[j]}

\* mux_design.set_function(minterms = ...)
MuxSetFunction ==
    /\ mux_pc = "idle"
    /\ \E on \in SUBSET Values(num_variables) :
          /\ function_truth_table' = mux_set_function(num_variables, on)
          /\ mux_minterms' = {i \in 0..(2 ^ num_variables - 1) :
                                 mux_set_function(num_variables, on)[i] = 1}
    /\ mux_pc' = "ready"
    /\ UNCHANGED <<num_variables, qmVars, espVars, cubeVars, kmVars, callVars,
                   select_variables, data_inputs>>

\* mux_design.design_single_mux(select_variables)
MuxDesignSingleMux ==
    /\ mux_pc = "ready"
    /\ \E sv \in SelectChoices(num_variables) :
          LET d == design_single_mux(function_truth_table, num_variables, sv)
          IN  /\ select_variables' = d.select_variable_indices
              /\ data_inputs' = d.data_inputs
    /\ mux_pc' = "designed"
    /\ UNCHANGED <<num_variables, qmVars, espVars, cubeVars, kmVars, callVars,
                   function_truth_table, mux_minterms>>

NextMux ==
    \/ MuxSetFunction
    \/ MuxDesignSingleMux

SpecMux == Init /\ [][NextMux]_vars

\* ------------------------------------------------------------------ claims
AllMinterms == 0..(2 ^ num_variables - 1)

\* the Off minterms of the function stored in the exact engine
Off == AllMinterms \ (minterms \cup dont_cares)

\* the minterms a list of terms covers, by their literal strings
TermsCover(terms) == UNION {ToMinterms(terms[k].binary_rep) : k \in 1..Len(terms)}

\* the minterms a list of cubes covers
CubesCover(cubes) == UNION {ToMinterms(cubes[k]) : k \in 1..Len(cubes)}

\* the cover minimize selected: essential implicants, then the greedy picks
SelectedCover == essential_pis \o selected_pis

\* total number of defined literals of a list of terms
TermsLiteralCount(terms) ==
    SumSeq([k \in 1..Len(terms) |-> LiteralCount(terms[k].binary_rep)])

\* C1: every prime implicant _find_prime_implicants produces covers no Off
\* minterm: every integer matching its literal string lies in On \cup DC
C1_PrimeImplicantsAvoidOff ==
    \A k \in 1..Len(prime_implicants) :
        ToMinterms(prime_implicants[k].binary_rep) \subseteq minterms \cup dont_cares

\* C1 witness: the generation has returned several implicants, one of them a
\* merged cube, for a function that has Off minterms and don't-cares
C1_Witness ==
    /\ pc = "essential"
    /\ Off # {}
    /\ dont_cares # {}
    /\ Len(prime_implicants) >= 2
    /\ \E k \in 1..Len(prime_implicants) :
          LiteralCount(prime_implicants[k].binary_rep) < num_variables

\* C2: when On is not empty, the cover minimize selected (essential implicants
\* followed by the greedy picks) covers every On minterm
C2_SelectedCoverComplete ==
    (pc = "done" /\ minterms # {}) => minterms \subseteq TermsCover(SelectedCover)

\* C2 witness: a finished minimization in which both the essential extraction
\* and the greedy covering contributed implicants
C2_Witness ==
    /\ pc = "done"
    /\ essential_pis # <<>>
    /\ selected_pis # <<>>
    /\ minterms \subseteq TermsCover(SelectedCover)

\* the On and Off minterms of the function stored in the heuristic engine
EspOn == CubesCover(on_set)
EspDc == CubesCover(dc_set)
EspOff == CubesCover(off_set)

\* C3: the cover EspressoAlgorithm.minimize returns is a valid cover: its
\* cubes together cover every On minterm and none covers an Off minterm
C3_EspressoCoverValid ==
    e_pc = "done" =>
        /\ EspOn \subseteq CubesCover(e_result.minimized_cover)
        /\ CubesCover(e_result.minimized_cover) \cap EspOff = {}

\* C4: for the same input, the literal cost of the cover
\* EspressoAlgorithm.minimize returns is at least the total literal count of
\* the cover QuineMcCluskey.minimize selects
C4_HeuristicCostAtLeastExact ==
    e_pc = "done" =>
        \A seed \in Seeds(num_variables) :
            e_result.cost >=
                TermsLiteralCount(minimize_selected(num_variables, EspOn, EspDc, seed))

\* C5: the cost QuineMcCluskey.minimize reports is the sum of the numbers of
\* defined literals of the selected prime implicants (0 for the tautology)
C5_CostIsLiteralCount ==
    pc = "done" => result.cost = TermsLiteralCount(SelectedCover)

\* C6: Cube.merge(a, b) returns a cube whose minterm set is the union of a's
\* and b's when distance(a, b) = 1, and no result otherwise
C6_MergeIsUnion ==
    (cube_out # None /\ cube_out.op = "merge") =>
        IF distance(cube_a, cube_b) = 1
        THEN /\ cube_out.value # None
             /\ ToMinterms(cube_out.value) = ToMinterms(cube_a) \cup ToMinterms(cube_b)
        ELSE cube_out.value = None

\* C7: a.contains(b) is true exactly when every minterm of b is a minterm of a
C7_ContainsIsSubset ==
    (cube_out # None /\ cube_out.op = "contains") =>
        (cube_out.value <=> ToMinterms(cube_b) \subseteq ToMinterms(cube_a))

\* no minterm of the set excluded is a minterm of the cube
Avoids(cube, excluded) == \A m \in excluded : ~Matches(m, cube)

\* a cube all of whose minterms lie outside excluded and which no single
\* relaxation keeps outside it
IsPrimeImplicant(cube, excluded) ==
    /\ Avoids(cube, excluded)
    /\ \A i \in 1..Len(cube) :
          cube[i] # "-" => ~Avoids(Relax(cube, i), excluded)

\* the list holds exactly the prime implicants of care, each once
ExactlyThePrimes(terms, n, care) ==
    LET excluded == (0..(2 ^ n - 1)) \ care
    IN  /\ {terms[k].binary_rep : k \in 1..Len(terms)}
              = {c \in Cubes(n) : IsPrimeImplicant(c, excluded)}
        /\ \A j, k \in 1..Len(terms) :
              terms[j].binary_rep = terms[k].binary_rep => j = k

\* C8: _find_prime_implicants returns exactly the prime implicants of
\* On \cup DC, each once (also when it is called on a function whose On is
\* empty, which minimize does not do)
C8_ExactlyThePrimeImplicants ==
    /\ pc = "essential" =>
          ExactlyThePrimes(prime_implicants, num_variables, minterms \cup dont_cares)
    /\ (pc = "ready" /\ minterms = {}) =>
          ExactlyThePrimes(
              find_prime_implicants(num_variables, minterms, dont_cares, hash_seed),
              num_variables, dont_cares)

\* C8 witness: the generation has returned at least three implicants, one of
\* them merged twice, for a function with Off minterms and don't-cares
C8_Witness ==
    /\ pc = "essential"
    /\ Off # {}
    /\ dont_cares # {}
    /\ Len(prime_implicants) >= 3
    /\ \E k \in 1..Len(prime_implicants) :
          LiteralCount(prime_implicants[k].binary_rep) + 2 <= num_variables
    /\ ExactlyThePrimes(prime_implicants, num_variables, minterms \cup dont_cares)

\* the order of Python strings over '-' < '0' < '1'
CharRank(c) == IF c = "-" THEN 0 ELSE IF c = "0" THEN 1 ELSE 2
LexLess(a, b) ==
    \E i \in 1..Len(a) :
        /\ \A j \in 1..(i - 1) : a[j] = b[j]
        /\ CharRank(a[i]) < CharRank(b[i])

\* t is the pick the tie-break rule prescribes among the entries of rel: the
\* most remaining minterms, then the fewest literals, then the smallest string
IsPrescribedPick(t, rel, remaining) ==
    LET size(k) == Cardinality(rel[k].covered \cap remaining)
        most == {k \in 1..Len(rel) : \A j \in 1..Len(rel) : size(j) <= size(k)}
        lits(k) == LiteralCount(rel[k].pi.binary_rep)
        fewest == {k \in most : \A j \in most : lits(k) <= lits(j)}
    IN  \E k \in fewest :
           /\ rel[k].pi.binary_rep = t.binary_rep
           /\ \A j \in fewest :
                 j = k \/ LexLess(rel[k].pi.binary_rep, rel[j].pi.binary_rep)

\* C9: at every step of the greedy covering the chosen implicant covers the
\* most still-uncovered minterms; ties go to the lowest literal count, then
\* to the lexicographically smallest literal string
C9_GreedyTieBreak ==
    (pc = "apply" /\ best_pi # None) =>
        IsPrescribedPick(best_pi, relevant_coverage, remaining_minterms)

\* C10: the expression minimize returns depends on (num_variables, On, DC)
\* alone: it is the same under every enumeration order of the sets
C10_ExpressionOrderIndependent ==
    pc = "done" =>
        \A seed \in Seeds(num_variables) :
            result.simplified_expression
                = minimize(num_variables, minterms, dont_cares, seed).simplified_expression

\* the cube of n DontCare literals
AllDontCare(n) == [i \in 1..n |-> "-"]

\* C11: constant functions are returned as constants. When On is empty both
\* engines return the expression "0" with an empty cover and cost 0, whatever
\* DC is; when On is all 2^n minterms the exact engine's prime implicants are
\* the single all-DontCare cube and its expression is "1"
C11_ConstantFunctions ==
    e_pc = "done" =>
        /\ on_set = <<>> =>
              /\ e_result.simplified_expression = "0"
              /\ e_result.minimized_cover = <<>>
              /\ e_result.cost = 0
              /\ \A seed \in Seeds(num_variables) :
                    LET r == minimize(num_variables, {}, EspDc, seed)
                    IN  /\ r.simplified_expression = "0"
                        /\ r.selected_prime_implicants = <<>>
                        /\ r.cost = 0
        /\ EspOn = AllMinterms =>
              \A seed \in Seeds(num_variables) :
                 LET pis == find_prime_implicants(num_variables, EspOn, {}, seed)
                 IN  /\ Len(pis) = 1
                     /\ pis[1].binary_rep = AllDontCare(num_variables)
                     /\ minimize(num_variables, EspOn, {}, seed).simplified_expression = "1"

\* C11 witness: a finished minimization of the constant 0 with don't-cares
\* present, both engines answering "0"
C11_Witness ==
    /\ e_pc = "done"
    /\ on_set = <<>>
    /\ dc_set # <<>>
    /\ num_variables >= 2
    /\ e_result.simplified_expression = "0"
    /\ minimize(num_variables, {}, EspDc, 0).simplified_expression = "0"
    /\ minimize(num_variables, AllMinterms, {}, 0).simplified_expression = "1"

\* a cube that stands for one minterm of [0, 2^n): n literals, all defined
IsMintermCube(cube, n) == cube \in [1..n -> {"0", "1"}]

\* some cube stored by the last EspressoAlgorithm.set_function call comes from
\* a value outside [0, 2^n)
EspStoredOutOfRange ==
    \/ \E k \in 1..Len(on_set) : ~IsMintermCube(on_set[k], num_variables)
    \/ \E k \in 1..Len(dc_set) : ~IsMintermCube(dc_set[k], num_variables)

\* C12: both engines reject out-of-range input. After a set_function call
\* whose minterm list or don't-care list holds a value outside [0, 2^n) the
\* engine is in the rejected state: the call failed and no minimization step
\* runs on the stored values
C12_OutOfRangeRejected ==
    /\ (pc # "idle" /\ \E m \in minterms \cup dont_cares : m \notin AllMinterms)
          => pc = "rejected"
    /\ (e_pc # "idle" /\ EspStoredOutOfRange) => e_pc = "rejected"

\* C13: an input whose minterm list and don't-care list share a value is
\* rejected by set_function of either engine: outside the rejected state the
\* stored On and DC are disjoint, so no minimize step operates on an overlap
C13_OverlapRejected ==
    /\ pc \notin {"idle", "rejected"} => minterms \cap dont_cares = {}
    /\ e_pc \notin {"idle", "rejected"} => Range(on_set) \cap Range(dc_set) = {}

\* the last EspressoAlgorithm.set_function call had valid input: every value
\* inside [0, 2^n) and no value in both lists
EspValidFunction ==
    /\ ~EspStoredOutOfRange
    /\ Range(on_set) \cap Range(dc_set) = {}

\* C20: after any sequence of EspressoAlgorithm.set_function calls, the last
\* one with valid input, the cubes of on_set, dc_set and off_set denote
\* pairwise disjoint minterm sets whose union is [0, 2^n), and off_set is the
\* complement of the On and DC of that last call: one cube per Off minterm,
\* nothing left of an earlier call
C20_SetFunctionPartition ==
    (e_pc # "idle" /\ EspValidFunction) =>
        /\ EspOn \cap EspDc = {}
        /\ EspOn \cap EspOff = {}
        /\ EspDc \cap EspOff = {}
        /\ EspOn \cup EspDc \cup EspOff = AllMinterms
        /\ EspOff = AllMinterms \ (EspOn \cup EspDc)
        /\ \A k \in 1..Len(off_set) : IsMintermCube(off_set[k], num_variables)
        /\ Len(off_set) = Cardinality(EspOff)

\* C20 witness: set_function has been called again after a finished
\* minimization of an earlier, different function; the new function has On,
\* DC and Off minterms
C20_Witness ==
    /\ e_pc = "ready"
    /\ e_result # None
    /\ e_result.minimized_cover # <<>>
    /\ \A k \in 1..Len(on_set) :
          \A j \in 1..Len(e_result.minimized_cover) : on_set[k] # e_result.minimized_cover[j]
    /\ EspValidFunction
    /\ on_set # <<>> /\ dc_set # <<>> /\ off_set # <<>>
    /\ EspOff = AllMinterms \ (EspOn \cup EspDc)

\* C14: the coverage solver never returns normally with a selection that
\* leaves a requested minterm uncovered: when _solve_covering_problem has
\* returned, every minterm of its argument uncovered_minterms (the On
\* minterms the essential implicants do not cover) is covered by a selected
\* implicant; a table that cannot cover them is reported as a failure instead
C14_SolverNeverReturnsPartial ==
    pc = "combine" =>
        (minterms \ covered_by_essential) \subseteq TermsCover(selected_pis)

\* total number of defined literals of a list of cubes
CubesLiteralCount(cubes) == SumSeq([k \in 1..Len(cubes) |-> LiteralCount(cubes[k])])

\* C15: the literal cost of the cover EspressoAlgorithm.minimize returns is
\* never greater than the literal cost of the initial cover (one full-length
\* cube per On minterm), and every pass whose cover is adopted has a strictly
\* lower literal cost than the cover the pass started from
C15_EspressoCostNeverAboveInitial ==
    /\ e_pc = "done" =>
          /\ e_result.cost <= num_variables * Len(on_set)
          /\ CubesLiteralCount(e_result.minimized_cover) <= CubesLiteralCount(on_set)
    /\ (e_pc = "loop" /\ iteration > 0) =>
          /\ CubesLiteralCount(current_cover) < old_cost
          /\ CubesLiteralCount(current_cover) <= CubesLiteralCount(on_set)

\* C15 witness: a finished minimization that adopted a pass and returned a
\* cover cheaper than the initial one
C15_Witness ==
    /\ e_pc = "done"
    /\ Len(on_set) >= 2
    /\ e_result.iterations >= 1
    /\ e_result.cost < num_variables * Len(on_set)
    /\ e_result.cost < old_cost

\* C16: for every valid input the total literal count of the cover
\* QuineMcCluskey.minimize selects, and the cost it reports, are at most the
\* cost of the trivial cover, num_variables literals for each On minterm
C16_ExactCostAtMostTrivial ==
    pc = "done" =>
        /\ TermsLiteralCount(SelectedCover) <= num_variables * Cardinality(minterms)
        /\ result.cost <= num_variables * Cardinality(minterms)

\* C16 witness: a finished minimization with don't-cares whose selected cover
\* has several implicants and fewer literals than the trivial cover
C16_Witness ==
    /\ pc = "done"
    /\ dont_cares # {}
    /\ Len(SelectedCover) >= 2
    /\ TermsLiteralCount(SelectedCover) < num_variables * Cardinality(minterms)
    /\ result.cost = Len(SelectedCover)

\* C17: re-minimization is cost-idempotent. With C the cover minimize selected
\* for (n, On, DC) and M the union of the minterm sets of C's cubes,
\* minimizing (n, M, no don't-cares) selects a cover with the same number of
\* cubes and the same total literal count as C
C17_ReminimizationSameCost ==
    pc = "done" =>
        LET again == minimize_selected(num_variables, TermsCover(SelectedCover), {}, hash_seed)
        IN  /\ Len(again) = Len(SelectedCover)
            /\ TermsLiteralCount(again) = TermsLiteralCount(SelectedCover)

RECURSIVE RenderPrefix(_, _)
\* the literals of the first k positions of a cube, in variable order: the
\* variable name for One, the name followed by ' for Zero, nothing for DontCare
RenderPrefix(cube, k) ==
    IF k = 0 THEN ""
    ELSE RenderPrefix(cube, k - 1)
            \o (CASE cube[k] = "1" -> VariableName(k)
                  [] cube[k] = "0" -> VariableName(k) \o "'"
                  [] OTHER -> "")

\* a cube as a product term; the all-DontCare cube is "1"
RenderCube(cube) ==
    IF \A i \in 1..Len(cube) : cube[i] = "-" THEN "1" ELSE RenderPrefix(cube, Len(cube))

RECURSIVE RenderSum(_, _)
\* the first k cubes of a list, joined by " + " in list order
RenderSum(cubes, k) ==
    IF k = 1 THEN RenderCube(cubes[1])
    ELSE RenderSum(cubes, k - 1) \o " + " \o RenderCube(cubes[k])

\* a cube list as an expression; the empty cover is "0"
RenderCover(cubes) == IF cubes = <<>> THEN "0" ELSE RenderSum(cubes, Len(cubes))

\* the literal strings of the cover minimize selected, in selection order
SelectedCubes == [k \in 1..Len(SelectedCover) |-> SelectedCover[k].binary_rep]

\* C18: rendering is determined by the cube list alone. The expression
\* minimize returns is the rendering of the selected cubes, essential
\* implicants in extraction order and then the greedy picks, joined by " + "
\* without re-sorting; each cube renders literal by literal in variable order,
\* the all-DontCare cube as "1", the empty cover as "0"; the heuristic
\* engine's _cover_to_expression renders the same list the same way
C18_RenderingByCubeList ==
    pc = "done" =>
        /\ result.simplified_expression = RenderCover(SelectedCubes)
        /\ result.selected_prime_implicants
              = [k \in 1..Len(SelectedCubes) |-> RenderCube(SelectedCubes[k])]
        /\ cover_to_expression(SelectedCubes) = RenderCover(SelectedCubes)

\* C18 witness: a returned expression of several terms, essential implicants
\* followed by greedy picks, with One, Zero and DontCare literals
C18_Witness ==
    /\ pc = "done"
    /\ essential_pis # <<>>
    /\ selected_pis # <<>>
    /\ \E k \in 1..Len(SelectedCubes) : \E i, j, l \in 1..num_variables :
          /\ SelectedCubes[k][i] = "1"
          /\ SelectedCubes[k][j] = "0"
          /\ SelectedCubes[k][l] = "-"
    /\ result.simplified_expression = RenderCover(SelectedCubes)

\* C19: the K-map path is the same minimization as the exact engine. For a
\* function without don't-cares, KarnaughMap.minimize_expression returns a
\* cover with as many product terms as QuineMcCluskey.minimize selects, and
\* every group KarnaughMap.find_prime_implicants returns is the minterm set
\* of a prime implicant of the function
C19_KMapSameAsExact ==
    /\ km_pc = "done" =>
          Len(km_final_pis)
              = Len(minimize_selected(num_variables, km_minterms, {}, km_hash_seed))
    /\ km_pc = "essential" =>
          \A k \in 1..Len(km_prime_implicants) :
             \E cube \in Cubes(num_variables) :
                /\ ToMinterms(cube) = km_prime_implicants[k]
                /\ IsPrimeImplicant(cube, km_maxterms)

\* the value of variable var_idx in the input assignment numbered m
VarValue(m, n, var_idx) == Bit(m, n - 1 - var_idx)

\* the index k of the data input the select lines choose for assignment m:
\* bit i of k is the value of select_variables[i]
SelectedInput(m, n, select_vars) ==
    SumSeq([i \in 1..Len(select_vars) |-> VarValue(m, n, select_vars[i]) * 2 ^ (i - 1)])

\* the value of a data input under assignment m
EvalInput(d, m, n) ==
    IF d.type = "int" THEN d.value
    ELSE IF \E t \in 1..Len(d.value) :
               \A l \in 1..Len(d.value[t]) :
                   VarValue(m, n, d.value[t][l].var)
                       = (IF d.value[t][l].positive THEN 1 ELSE 0)
         THEN 1 ELSE 0

\* C21: the single multiplexer design_single_mux returns implements the
\* function: for every input assignment m, the data input chosen by the values
\* of the select variables, evaluated on the assignment, is the truth-table
\* value of m
C21_SingleMuxImplementsFunction ==
    mux_pc = "designed" =>
        \A m \in 0..(2 ^ num_variables - 1) :
            EvalInput(data_inputs[SelectedInput(m, num_variables, select_variables)],
                      m, num_variables) = function_truth_table[m]

\* the entries of the coverage table that are the only one covering some On
\* minterm
EssentialEntries ==
    {k \in 1..Len(coverage) :
        \E m \in minterms :
            /\ m \in coverage[k].covered
            /\ \A j \in 1..Len(coverage) : j # k => m \notin coverage[j].covered}

\* C22: once _find_essential_prime_implicants has returned, an implicant is in
\* essential_pis iff it is the only table entry covering some On minterm;
\* covered_by_essential is exactly what the essential implicants cover of On;
\* no minterm of it is handed to the residual covering; and in the selected
\* cover every essential implicant occurs exactly once
C22_EssentialExtractionExact ==
    pc \in {"solve", "choose", "apply", "combine", "done"} =>
        /\ \A k \in 1..Len(coverage) :
              TermIn(coverage[k].pi, essential_pis) <=> k \in EssentialEntries
        /\ \A i \in 1..Len(essential_pis) :
              \E k \in 1..Len(coverage) : TermEq(coverage[k].pi, essential_pis[i])
        /\ covered_by_essential = UNION {coverage[k].covered : k \in EssentialEntries}
        /\ pc \in {"choose", "apply"} => remaining_minterms \cap covered_by_essential = {}
        /\ pc \in {"combine", "done"} =>
              LET selected == essential_pis \o selected_pis
              IN  \A i \in 1..Len(essential_pis) :
                     Cardinality({j \in 1..Len(selected) :
                                     TermEq(selected[j], essential_pis[i])}) = 1

\* minimize has returned a cover made of an essential and of an additional
\* implicant, an essential implicant covering a minterm that another entry
\* covers too
C22_Witness ==
    /\ pc = "done"
    /\ essential_pis # <<>>
    /\ selected_pis # <<>>
    /\ EssentialEntries # 1..Len(coverage)
    /\ \E m \in covered_by_essential : Len(covering_pis(coverage, m)) > 1

\* the number of '-' literals of a literal string
DashCount(rep) == Cardinality({i \in 1..Len(rep) : rep[i] = "-"})

\* a term is tagged with exactly the integers its literal string matches
WellTagged(t) ==
    /\ t.minterms = ToMinterms(t.binary_rep)
    /\ Cardinality(t.minterms) = 2 ^ DashCount(t.binary_rep)

\* C23: in every generation of the tabulation each term (and each prime
\* implicant set aside) is tagged with exactly the minterms its literal string
\* matches, 2^d of them for d '-' literals; every pair the generation combines
\* has its '-' at the same positions and differs in exactly one defined
\* position, and the combined term stands for the union of its parents' sets
C23_TabulationTermsExact ==
    pc = "generate" =>
        /\ \A k \in 1..Len(current_terms) : WellTagged(current_terms[k])
        /\ \A k \in 1..Len(prime_implicants) : WellTagged(prime_implicants[k])
        /\ LET pairs == combinable_pairs(current_terms)
           IN  \A p \in 1..Len(pairs) :
                  LET t1 == current_terms[pairs[p][1]]
                      t2 == current_terms[pairs[p][2]]
                      c == combine_with(t1, t2)
                  IN  /\ \A i \in 1..Len(t1.binary_rep) :
                            (t1.binary_rep[i] = "-") <=> (t2.binary_rep[i] = "-")
                      /\ Cardinality({i \in 1..Len(t1.binary_rep) :
                                         t1.binary_rep[i] # t2.binary_rep[i]}) = 1
                      /\ c.minterms = t1.minterms \cup t2.minterms
                      /\ ToMinterms(c.binary_rep)
                            = ToMinterms(t1.binary_rep) \cup ToMinterms(t2.binary_rep)

\* a generation of combined terms (one '-' each), some of which combine once
\* more while another one does not
C23_Witness ==
    /\ pc = "generate"
    /\ \E k \in 1..Len(current_terms) : DashCount(current_terms[k].binary_rep) = 1
    /\ combinable_pairs(current_terms) # <<>>
    /\ used_positions(combinable_pairs(current_terms)) # 1..Len(current_terms)

\* C24: prime-implicant generation terminates: in pass g of the while loop
\* every term has exactly g '-' literals, no literal string occurs twice in the
\* generation, and a generation is non-empty only for g <= num_variables, so
\* the loop makes at most num_variables + 1 passes
C24_GenerationTerminates ==
    pc = "generate" =>
        /\ \A k \in 1..Len(current_terms) :
              DashCount(current_terms[k].binary_rep) = generation
        /\ \A i \in 1..Len(current_terms) : \A j \in 1..Len(current_terms) :
              i # j => current_terms[i].binary_rep # current_terms[j].binary_rep
        /\ generation <= num_variables + 1
        /\ current_terms # <<>> => generation <= num_variables

\* the loop has made num_variables + 1 passes: the last generation held the
\* cube without literals, reached along several merge paths
C24_Witness ==
    /\ pc = "generate"
    /\ num_variables >= 2
    /\ generation = num_variables + 1
    /\ current_terms = <<>>
    /\ Len(prime_implicants) = 1

RECURSIVE PrescribedExpansion(_, _, _)
\* the expansion the positions i.. of a cube get when they are tried in index
\* order and a literal is dropped iff the cube without it meets no minterm of
\* excluded
PrescribedExpansion(cube, i, excluded) ==
    IF i > Len(cube) THEN cube
    ELSE IF cube[i] # "-" /\ ToMinterms(Relax(cube, i)) \cap excluded = {}
         THEN PrescribedExpansion(Relax(cube, i), i + 1, excluded)
         ELSE PrescribedExpansion(cube, i + 1, excluded)

\* C25: when EXPAND has run, the expanded cover holds, for every cube of the
\* cover it was given, the cube _expand_cube returns, and that cube is the
\* one obtained by trying the defined positions in index order and dropping a
\* literal iff the relaxed cube covers no Off minterm; it contains the input
\* cube, covers no Off minterm if the input cube covered none, and no further
\* literal of it can be dropped without covering an Off minterm
C25_ExpandCubeMaximalValid ==
    e_pc = "irredundant" =>
        /\ Range(expanded_cover)
              = {expand_cube(current_cover[k], off_set, num_variables) :
                    k \in 1..Len(current_cover)}
        /\ \A k \in 1..Len(current_cover) :
              LET cube == current_cover[k]
                  out == expand_cube(cube, off_set, num_variables)
              IN  /\ out = PrescribedExpansion(cube, 1, EspOff)
                  /\ ToMinterms(cube) \subseteq ToMinterms(out)
                  /\ ToMinterms(cube) \cap EspOff = {} => ToMinterms(out) \cap EspOff = {}
                  /\ \A i \in 1..Len(out) :
                        out[i] # "-" => ToMinterms(Relax(out, i)) \cap EspOff # {}

\* EXPAND has run on a cube for which an earlier position was refused and a
\* later one accepted, the expanded cube reaching into the don't-care set
C25_Witness ==
    /\ e_pc = "irredundant"
    /\ \E k \in 1..Len(current_cover) :
          LET cube == current_cover[k]
              out == expand_cube(cube, off_set, num_variables)
          IN  /\ ToMinterms(cube) \cap EspOff = {}
              /\ ToMinterms(out) \cap EspDc # {}
              /\ \E i \in 1..Len(out) : \E j \in 1..Len(out) :
                    i < j /\ out[i] # "-" /\ out[j] = "-" /\ cube[j] # "-"

\* C26: when IRREDUNDANT has run, its result lists cubes of the cover it was
\* given, in their order; a cube of the cover is missing from it iff the
\* minterm set of the cube is contained in that of another cube of the cover;
\* and the result covers exactly the minterms the given cover covers
C26_IrredundantDropsContained ==
    e_pc = "reduce" =>
        /\ \E keep \in SUBSET (1..Len(expanded_cover)) :
              irredundant_cover = SubList(expanded_cover, keep)
        /\ \A k \in 1..Len(expanded_cover) :
              (expanded_cover[k] \notin Range(irredundant_cover))
                  <=> \E j \in 1..Len(expanded_cover) :
                         /\ expanded_cover[j] # expanded_cover[k]
                         /\ ToMinterms(expanded_cover[k])
                               \subseteq ToMinterms(expanded_cover[j])
        /\ CubesCover(irredundant_cover) = CubesCover(expanded_cover)

\* C27: when REDUCE has run, the reduced cover holds, for every cube of the
\* cover it was given, the cube _reduce_cube returns; that cube's minterm set
\* is a subset of the original cube's and contains no Off minterm, and the
\* reduced cover covers every On minterm the given cover covered
C27_ReduceOnlyTightens ==
    e_pc = "check" =>
        /\ Range(reduced_cover)
              = {reduce_cube(irredundant_cover[k], irredundant_cover, num_variables) :
                    k \in 1..Len(irredundant_cover)}
        /\ \A k \in 1..Len(irredundant_cover) :
              LET cube == irredundant_cover[k]
                  out == reduce_cube(cube, irredundant_cover, num_variables)
              IN  /\ ToMinterms(out) \subseteq ToMinterms(cube)
                  /\ ToMinterms(out) \cap EspOff = {}
        /\ (CubesCover(irredundant_cover) \cap EspOn) \subseteq CubesCover(reduced_cover)

\* one step of the refinement loop, as the claim prescribes it
C28_Step ==
    /\ e_pc = "loop" =>
          IF iteration < max_iterations THEN e_pc' = "irredundant"
          ELSE /\ e_pc' = "done"
               /\ e_result'.minimized_cover = current_cover
               /\ e_result'.iterations = iteration
    /\ e_pc = "irredundant" => e_pc' = "reduce"
    /\ e_pc = "reduce" => e_pc' = "check"
    /\ e_pc = "check" =>
          IF CubesLiteralCount(reduced_cover) < CubesLiteralCount(current_cover)
          THEN /\ current_cover' = reduced_cover
               /\ iteration' = iteration + 1
               /\ e_pc' = "loop"
          ELSE /\ current_cover' = current_cover
               /\ iteration' = iteration
               /\ e_pc' = "finish"
    /\ e_pc = "finish" =>
          /\ e_pc' = "done"
          /\ e_result'.minimized_cover = current_cover
          /\ e_result'.iterations = iteration

\* C28: the refinement loop of minimize(max_iterations = k) runs EXPAND,
\* IRREDUNDANT, REDUCE in that order; a pass is adopted (and counted in
\* iteration) iff its literal cost is strictly lower than that of the cover it
\* started from, otherwise its cover is discarded and the loop ends; the loop
\* also ends when k passes are adopted; minimize then returns the last adopted
\* cover with iterations = the number of adopted passes <= k, never an error;
\* and every call that enters the loop returns
C28_RefinementLoopTerminates ==
    /\ [](e_pc # "raised" /\ iteration <= max_iterations)
    /\ [][C28_Step]_vars
    /\ (e_pc = "loop" ~> e_pc = "done")

\* minimize has returned after adopting as many passes as max_iterations allows
C28_Witness ==
    /\ e_pc = "done"
    /\ max_iterations > 0
    /\ e_result.iterations = max_iterations
    /\ e_result.minimized_cover # on_set

\* what a step may do when minimize has no effect on the stored function
C29_Step ==
    /\ pc # "idle" => minterms' = minterms /\ dont_cares' = dont_cares
    /\ e_pc # "idle" => on_set' = on_set /\ dc_set' = dc_set /\ off_set' = off_set
    /\ (qm_calls > 0 /\ pc # "done" /\ pc' = "done") => result' = result
    /\ (e_calls' > 0 /\ e_pc' = "done" /\ (e_pc # "done" \/ e_calls' # e_calls))
          => e_result' = e_result

\* C29: no step of QuineMcCluskey.minimize changes minterms or dont_cares and
\* no step of EspressoAlgorithm.minimize changes on_set, dc_set or off_set; a
\* minimize call repeated without an intervening set_function (with the same
\* max_iterations for Espresso) returns a dictionary equal to the one the
\* preceding call returned
C29_MinimizeLeavesFunction == [][C29_Step]_vars

\* both engines have returned from a repeated call, each with a cover that
\* took work to find
C29_Witness ==
    /\ pc = "done" /\ qm_calls > 0
    /\ result.cost >= 2
    /\ e_pc = "done" /\ e_calls > 0
    /\ e_result.iterations >= 1

\* C30: a QuineMcCluskey.set_function call that raises ValueError for an
\* out-of-range value leaves minterms and dont_cares as they were before the
\* call
C30_RejectedCallChangesNothing ==
    [][pc' = "rejected" => minterms' = minterms /\ dont_cares' = dont_cares]_vars
====
